---------------------------- MODULE Spec2Model ----------------------------
(***************************************************************************)
(* KeyMaster (pyvince): the credential codec, the Redis-backed store and   *)
(* the validate / mint / revoke operations of src/src.                     *)
(*                                                                         *)
(* Strings are sequences of one-character strings, so that parsing and    *)
(* formatting are computed character by character.  An Optional value is  *)
(* a sequence of length 0 (None) or 1.                                     *)
(***************************************************************************)
EXTENDS Integers, Sequences, FiniteSets, TLC

VARIABLES
    now,          \* datetime.now().timestamp(), in whole seconds
    docs,         \* JSON documents apikey:{pid}:{kid}
    keysets,      \* sets apiprojectkeys:{pid}
    meta,         \* hashes apimeta:{pid}:{kid}
    rate,         \* counters ratelimit:key:{pid}:{kid}:{minute}, with their expiry
    audit,        \* the stream audit:keylookup
    pc,           \* validate_api_key: where each running call stands
    api_key,      \* validate_api_key: the presented string
    parsed_key,   \* validate_api_key: ParsedAPIKey.parse(api_key)
    api_key_doc,  \* validate_api_key: the document get_api_key returned
    ret,          \* validate_api_key: the value returned
    eff,          \* history: what the running call has appended / incremented
    adm,          \* revoke_key: the request between its two store round trips
    minted,       \* history: the mint responses, with what mint generated
    revoked,      \* history: credentials whose key a revoke answered {revoked: true}
    outcomes,     \* history: per presented string, the calls returned Ok / None
    rlCalls,      \* history: check_rate_limit calls per (pid, kid, floor(now / 60))
    allowed,      \* history: check_rate_limit calls that returned True per (pid, kid, now)
    nMints,       \* mint_key calls so far
    nValidates,   \* validate_api_key calls so far
    faulted,      \* history: some store round trip has failed (RedisError)
    cin,          \* codec: the input string
    cstage,       \* codec: "new", "parsed", "formatted"
    cparsed,      \* codec: ParsedAPIKey.parse(cin)
    cout,         \* codec: format_key() of the parsed key
    resp,         \* the admin exchange the last step completed: request and response
    walk,         \* list_all_keys: the client's loop over the pages of one project
    projects,     \* JSON documents project:{pid}
    creating,     \* create_project: the requests between their two store round trips
    verify        \* verify_password on its own: the arguments and the outcome

storeVars == <<now, docs, keysets, meta, rate, audit>>
callVars  == <<pc, api_key, parsed_key, api_key_doc, ret, eff>>
histVars  == <<adm, minted, revoked, outcomes, rlCalls, allowed, nMints, nValidates, faulted>>
codecVars == <<cin, cstage, cparsed, cout>>
adminVars == <<resp, walk, projects, creating, verify>>
vars      == <<storeVars, callVars, histVars, codecVars, adminVars>>

---------------------------------------------------------------------------
(* Bounds of the model. *)

MaxMints     == 1     \* Spec: mint_key calls
MaxValidates == 2     \* Spec: validate_api_key calls
\* check_rate_limit's limit.  The source's default is 100 (redis_client.py:291);
\* the model runs the same code with a small limit, and every statement
\* about the limit is made in terms of this name.
LimitPerMinute == 1
MaxTailLen   == 5     \* SpecCodec: characters after the head of an input
RevMaxMints     == 2  \* SpecRevoke: mint_key calls
RevMaxValidates == 2  \* SpecRevoke: validate_api_key calls
RateMaxValidates == 3 \* SpecRate: validate_api_key calls
MintMaxMints    == 2  \* SpecMint: mint_key calls
AuditMaxValidates == 2 \* SpecAudit: validate_api_key calls
VerifyMaxSecrets == 5 \* SpecVerify: generated secrets
RejectMaxValidates == 3 \* SpecReject: validate_api_key calls
AdminMaxMints == 2 \* SpecAdmin: mint_key requests
ListMaxOffset == 3 \* SpecList: the largest offset of a list_keys request
ListMaxLimit == 2 \* SpecList: the largest limit of a list_keys request
WalkMaxLimit == 2 \* SpecWalk: the largest page size of list_all_keys
ProjectMaxRequests == 2 \* SpecProject: create_project requests in flight
StoreMaxMints == 2 \* SpecStore: mint_key requests
StoreMaxValidates == 2 \* SpecStore: validate_api_key calls

---------------------------------------------------------------------------
(* Optional values and finite maps. *)

None == <<>>

Some(x) == <<x>>

EmptyMap == [x \in {} |-> {}]

Put(f, k, v) == [x \in (DOMAIN f) \cup {k} |-> IF x = k THEN v ELSE f[x]]

Min(a, b) == IF a <= b THEN a ELSE b

Max(a, b) == IF a >= b THEN a ELSE b

\* The step completes no admin exchange and touches no project.
Silent ==
    /\ resp' = None
    /\ UNCHANGED <<walk, projects, creating, verify>>

\* The specification keeps no record of the exchange the step completes.
Unrecorded == resp' = None

---------------------------------------------------------------------------
(* models.py: ParsedAPIKey, the credential codec. *)

DOT == "."

\* "sk-proj."
KEY_PREFIX == <<"s", "k", "-", "p", "r", "o", "j", ".">>

\* str.startswith
StartsWith(s, pre) ==
    /\ Len(s) >= Len(pre)
    /\ SubSeq(s, 1, Len(pre)) = pre

\* str.find(".") + 1, 0 when there is none
RECURSIVE FindDot(_, _)
FindDot(s, i) ==
    IF i > Len(s) THEN 0
    ELSE IF s[i] = DOT THEN i
    ELSE FindDot(s, i + 1)

\* str.split(".", maxsplit): the list of segments
RECURSIVE Split(_, _)
Split(s, maxsplit) ==
    LET i == FindDot(s, 1)
    IN  IF maxsplit = 0 \/ i = 0 THEN <<s>>
        ELSE <<SubSeq(s, 1, i - 1)>> \o Split(SubSeq(s, i + 1, Len(s)), maxsplit - 1)

ParsedAPIKey(pid, kid, sec) == [project_id |-> pid, key_id |-> kid, secret |-> sec]

\* raise ValueError("Invalid API key format")
InvalidFormat == None

\* A mutant: splits on every dot.
Parse_SplitAll(s) ==
    IF ~StartsWith(s, KEY_PREFIX) THEN InvalidFormat
    ELSE LET parts == Split(s, Len(s))
         IN  IF Len(parts) # 4 THEN InvalidFormat
             ELSE Some(ParsedAPIKey(parts[2], parts[3], parts[4]))

\* ParsedAPIKey.parse: Some(parsed key), or None for the ValueError
Parse(s) ==
    IF ~StartsWith(s, KEY_PREFIX) THEN InvalidFormat
    ELSE LET parts == Split(s, 3)
         IN  IF Len(parts) # 4 THEN InvalidFormat
             ELSE Some(ParsedAPIKey(parts[2], parts[3], parts[4]))

\* A mutant: the separator before the secret is left out.
FormatKey_NoSep(k) ==
    <<"s", "k", "-", "p", "r", "o", "j", ".">> \o k.project_id \o <<".">> \o k.key_id \o k.secret

\* ParsedAPIKey.format_key
FormatKey(k) ==
    <<"s", "k", "-", "p", "r", "o", "j", ".">> \o k.project_id \o <<".">> \o k.key_id
        \o <<".">> \o k.secret

---------------------------------------------------------------------------
(* The codec on its own: parse an input string, then format what was      *)
(* parsed.                                                                 *)

CodecChars == {".", "a"}

RECURSIVE SeqsUpTo(_, _)
SeqsUpTo(S, n) ==
    IF n = 0 THEN {<<>>}
    ELSE LET shorter == SeqsUpTo(S, n - 1)
         IN  shorter \cup {Append(t, c) : t \in {u \in shorter : Len(u) = n - 1}, c \in S}

\* Heads: the prefix, the prefix without its dot, a wrong prefix, nothing.
CodecHeads ==
    { KEY_PREFIX,
      <<"s", "k", "-", "p", "r", "o", "j">>,
      <<"s", "k", "-", "p", "r", "o", "x", ".">>,
      <<>> }

CodecInputs == {h \o t : h \in CodecHeads, t \in SeqsUpTo(CodecChars, MaxTailLen)}

CodecParse ==
    /\ cstage = "new"
    /\ cparsed' = Parse(cin)
    /\ cstage' = "parsed"
    /\ UNCHANGED <<cin, cout>>
    /\ UNCHANGED <<storeVars, callVars, histVars>>
    /\ Silent

CodecFormat ==
    /\ cstage = "parsed"
    /\ cparsed # None
    /\ cout' = FormatKey(cparsed[1])
    /\ cstage' = "formatted"
    /\ UNCHANGED <<cin, cparsed>>
    /\ UNCHANGED <<storeVars, callVars, histVars>>
    /\ Silent

---------------------------------------------------------------------------
(* security.py: secrets, key ids, Argon2id. *)

\* generate_secret: 32 characters from a CSPRNG (over 64^32 values); the
\* n-th call's result is modelled as a string no other call returns.
GenerateSecret(n) == <<"S", ToString(n)>>

\* A secret no mint generates.
WrongSecret == <<"w">>

\* A mutant: the secret is stored as it is.
HashPassword_Plain(password) == [alg |-> "plaintext", of |-> password]

\* PasswordManager.hash_password: the encoded Argon2id hash of a secret.
HashPassword(password) == [alg |-> "argon2id", of |-> password]

\* Strings that are not the encoding of an Argon2 hash.
MalformedHashes ==
    { [alg |-> "invalid_hash_string", of |-> <<>>],
      [alg |-> "", of |-> <<>>],
      [alg |-> "bcrypt", of |-> WrongSecret] }

\* What a Python call does: it returns a value or raises an exception.
Return(v) == [returned |-> <<v>>, raised |-> <<>>]

Raise(e) == [returned |-> <<>>, raised |-> <<e>>]

\* self.hasher.verify(hash_str, password) of argon2-cffi: True for the hash
\* of the password, VerifyMismatchError for the hash of another one,
\* InvalidHashError for a string that is not an Argon2 encoding.
HasherVerify(hash_str, password) ==
    IF hash_str.alg # "argon2id" THEN Raise("InvalidHashError")
    ELSE IF hash_str = HashPassword(password) THEN Return(TRUE)
    ELSE Raise("VerifyMismatchError")

\* PasswordManager.verify_password: True when the hasher verifies, False on
\* VerifyMismatchError; any other exception of the hasher propagates.
VerifyPasswordCall(password, hash_str) ==
    IF HasherVerify(hash_str, password).raised = <<"VerifyMismatchError">>
    THEN Return(FALSE)
    ELSE IF HasherVerify(hash_str, password).raised # <<>>
    THEN HasherVerify(hash_str, password)
    ELSE Return(TRUE)

\* A mutant: every secret verifies.
VerifyPassword_Always(password, hash_str) == TRUE

\* verify_password returns True
VerifyPassword(password, hash_str) ==
    VerifyPasswordCall(password, hash_str) = Return(TRUE)

---------------------------------------------------------------------------
(* models.py: APIKeyDocument, AuditEvent. *)

APIKeyDocument(kid, pid, owner, metadata, hash, created, expires) ==
    [ key_id      |-> kid,
      project_id  |-> pid,
      owner       |-> owner,
      metadata    |-> metadata,
      secret_hash |-> hash,
      disabled    |-> FALSE,
      created_at  |-> created,
      expires_at  |-> expires ]

\* A mutant: a key never expires.
IsExpired_Never(doc, t) == FALSE

\* APIKeyDocument.is_expired, at time t
IsExpired(doc, t) ==
    IF doc.expires_at = None THEN FALSE
    ELSE t > doc.expires_at[1]

\* APIKeyDocument.is_valid, at time t
IsValid(doc, t) == ~doc.disabled /\ ~IsExpired(doc, t)

\* AuditEvent(...) with its default ts and client
AuditEvent(pid, kid, result, t) ==
    [ ts |-> t, project_id |-> pid, key_id |-> kid, result |-> result,
      client |-> "keymanager" ]

\* AuditEvent.to_stream_fields
ToStreamFields(e) ==
    [ ts |-> ToString(e.ts), project_id |-> e.project_id, key_id |-> e.key_id,
      result |-> e.result, client |-> e.client ]

---------------------------------------------------------------------------
(* redis_client.py: key names. *)

ApikeyKey(pid, kid) == <<"apikey:">> \o pid \o <<":">> \o kid

ApiprojectkeysKey(pid) == <<"apiprojectkeys:">> \o pid

ProjectKey(pid) == <<"project:">> \o pid

ApimetaKey(pid, kid) == <<"apimeta:">> \o pid \o <<":">> \o kid

\* A mutant: one rate counter per project and minute.
RatelimitKey_PerProject(pid, kid, minute) ==
    <<"ratelimit:key:">> \o pid \o <<":", ToString(minute)>>

RatelimitKey(pid, kid, minute) ==
    <<"ratelimit:key:">> \o pid \o <<":">> \o kid \o <<":", ToString(minute)>>

\* A mutant: the window is half a minute.
CurrentMinute_HalfMinute(t) == t \div 30

\* int(datetime.now().timestamp() // 60)
CurrentMinute(t) == t \div 60

\* pipe.expire(rate_key, 120): when a counter touched at time t goes away
RateExpiry(t) == t + 120

\* A mutant: twice the limit is let through.
WithinLimit_Double(current_count, limit_per_minute) == current_count <= 2 * limit_per_minute

\* A mutant: the request that reaches the limit is denied.
WithinLimit_Strict(current_count, limit_per_minute) == current_count < limit_per_minute

\* current_count <= limit_per_minute
WithinLimit(current_count, limit_per_minute) == current_count <= limit_per_minute

---------------------------------------------------------------------------
(* Requests. *)

PlainProject == <<"p">>

DottedProject == <<"p", ".", "q">>

KeyA == <<"k", "_", "A">>

KeyB == <<"k", "_", "B">>

KeyC == <<"k", "_", "C">>

Owners == {"alice"}

Metadatas == {"srv-a"}

\* A string ParsedAPIKey.parse rejects.
Malformed == <<"x">>

\* A well-formed string with a secret that was never issued.
Forged(pid, kid) == FormatKey(ParsedAPIKey(pid, kid, WrongSecret))

\* The credentials mint has returned.
Issued == {m.api_key : m \in minted}

\* The two workers are interchangeable: the second serves a request only
\* while the first is busy.
Procs == {"v1", "v2"}

NoEff ==
    [ events |-> <<>>, usage |-> <<>>, errs |-> {}, checked_at |-> None,
      rank |-> None, after_revoke |-> FALSE, handle |-> None, verified |-> FALSE ]

\* The store handle validate_key calls, by the user name it logs in with.
RedisValidator == "validator"

---------------------------------------------------------------------------
(* The clock.  Redis drops a rate counter when its expiry time is reached. *)

Tick(t) ==
    /\ t > now
    /\ now' = t
    /\ rate' = [k \in {x \in DOMAIN rate : rate[x].expire_at > t} |-> rate[k]]
    /\ UNCHANGED <<docs, keysets, meta, audit>>
    /\ UNCHANGED <<callVars, histVars, codecVars>>
    /\ Silent

---------------------------------------------------------------------------
(* main.py: the responses of the endpoints. *)

\* create_error_response: the error envelope and its HTTP status
ErrorResponse(code, message, status_code) ==
    [ status |-> status_code,
      body   |-> [error |-> [code |-> code, message |-> message]] ]

\* return MintKeyResponse(api_key=api_key)
MintKeyResponse(key) == [status |-> 200, body |-> [api_key |-> key]]

\* return RevokeKeyResponse(revoked=True)
RevokeKeyResponse(flag) == [status |-> 200, body |-> [revoked |-> flag]]

\* return ValidateKeyResponse(project_id=..., key_id=..., owner=..., metadata=...)
ValidateKeyResponse(doc) ==
    [ status |-> 200,
      body   |-> [ project_id |-> doc.project_id, key_id |-> doc.key_id,
                   owner |-> doc.owner, metadata |-> doc.metadata ] ]

\* A mutant: a rejection is answered as a missing key.
ValidateKeyAnswer_NotFound(r) ==
    IF r = None
    THEN ErrorResponse("key_not_found", "API key not found", 404)
    ELSE ValidateKeyResponse(r[1])

\* validate_key: what the endpoint answers for the value validate_api_key
\* returned
ValidateKeyAnswer(r) ==
    IF r = None
    THEN ErrorResponse("invalid_key", "Invalid or expired API key", 401)
    ELSE ValidateKeyResponse(r[1])

\* An admin exchange: the endpoint and its request, the store round trips
\* that failed, the stored record the handler found, and the response.
Exchange(endpoint, request, errs, before, response) ==
    Some([ endpoint |-> endpoint, request |-> request, errs |-> errs,
           before |-> before, response |-> response ])

---------------------------------------------------------------------------
(* main.py: mint_key, with redis_client.py: store_api_key. *)

\* A mutant: the key id is not added to the project's set.
StoreApiKey_NoMember(doc) ==
    [ docs    |-> Put(docs, ApikeyKey(doc.project_id, doc.key_id), doc),
      keysets |-> keysets,
      meta    |-> Put(meta, ApimetaKey(doc.project_id, doc.key_id),
                      [usage_count |-> 0, last_used |-> None]) ]

\* store_api_key: the store after the transaction pipe.execute() sends
\* (MULTI, JSON.SET of the document, SADD of the key id, HSET of the usage
\* sidecar, EXEC): the three writes take effect together.
StoreApiKey(doc) ==
    [ docs    |-> Put(docs, ApikeyKey(doc.project_id, doc.key_id), doc),
      keysets |-> Put(keysets, ApiprojectkeysKey(doc.project_id),
                      (IF ApiprojectkeysKey(doc.project_id) \in DOMAIN keysets
                       THEN keysets[ApiprojectkeysKey(doc.project_id)] ELSE {})
                          \cup {doc.key_id}),
      meta    |-> Put(meta, ApimetaKey(doc.project_id, doc.key_id),
                      [usage_count |-> 0, last_used |-> None]) ]

\* mint_key: a key id and a secret are generated, the document is built and
\* store_api_key writes it; the credential is returned unless store_api_key
\* returned False.  A RedisError of pipe.execute() is raised either before
\* the server ran the transaction or after it did and the reply was lost.
MintKey(pid, key_id, owner, metadata, expires, fail) ==
    /\ nMints' = nMints + 1
    /\   LET secret      == GenerateSecret(nMints + 1)
             secret_hash == HashPassword(secret)
             doc         == APIKeyDocument(key_id, pid, owner, metadata, secret_hash,
                                           now, expires)
             written     == StoreApiKey(doc)
         IN  IF fail
             THEN /\ faulted' = TRUE
                  /\ UNCHANGED minted
                  /\ \/ UNCHANGED <<docs, keysets, meta>>
                     \/ /\ docs' = written.docs
                        /\ keysets' = written.keysets
                        /\ meta' = written.meta
             ELSE /\ docs' = written.docs
                  /\ keysets' = written.keysets
                  /\ meta' = written.meta
                  /\ minted' = minted \cup
                        { [ api_key    |-> FormatKey(ParsedAPIKey(pid, key_id, secret)),
                            project_id |-> pid,
                            key_id     |-> key_id,
                            secret     |-> secret,
                            owner      |-> owner,
                            metadata   |-> metadata ] }
                  /\ UNCHANGED faulted
    /\ UNCHANGED <<now, rate, audit>>
    /\ UNCHANGED <<callVars, codecVars>>
    /\ UNCHANGED <<adm, revoked, outcomes, rlCalls, allowed, nValidates>>
    /\ UNCHANGED <<walk, projects, creating, verify>>

\* What mint_key answers: the credential, or storage_error when
\* store_api_key returned False.
MintKeyAnswer(pid, key_id, owner, metadata, expires, fail) ==
    Exchange("mint-key",
             [project_id |-> pid, owner |-> owner, metadata |-> metadata,
              expires_at |-> expires],
             IF fail THEN {"store"} ELSE {},
             None,
             IF fail
             THEN ErrorResponse("storage_error", "Failed to store API key", 500)
             ELSE MintKeyResponse(
                      FormatKey(ParsedAPIKey(pid, key_id, GenerateSecret(nMints + 1)))))

---------------------------------------------------------------------------
(* main.py: revoke_key, with redis_client.py: get_api_key, revoke_api_key. *)

\* get_api_key: the document, or None when it is absent or the read fails
GetApiKey(pid, kid, fail) ==
    IF fail \/ ApikeyKey(pid, kid) \notin DOMAIN docs THEN None
    ELSE Some(docs[ApikeyKey(pid, kid)])

\* revoke_key, first round trip: key_not_found unless get_api_key returns a
\* document.
RevokeFetch(pid, kid, fail) ==
    /\ adm = None
    /\ adm' = IF GetApiKey(pid, kid, fail) = None THEN None
              ELSE Some([project_id |-> pid, key_id |-> kid])
    /\ faulted' = (faulted \/ fail)
    /\ UNCHANGED <<storeVars, callVars, codecVars>>
    /\ UNCHANGED <<minted, revoked, outcomes, rlCalls, allowed, nMints, nValidates>>
    /\ UNCHANGED <<walk, projects, creating, verify>>

\* A mutant: the flag is written as false.
RevokeSet_WritesFalse(fail) ==
    /\ adm # None
    /\ LET key == ApikeyKey(adm[1].project_id, adm[1].key_id)
       IN  IF fail \/ key \notin DOMAIN docs
           THEN /\ faulted' = (faulted \/ fail)
                /\ UNCHANGED <<docs, revoked>>
           ELSE /\ docs' = [docs EXCEPT ![key].disabled = FALSE]
                /\ revoked' = revoked \cup
                      { m.api_key : m \in { x \in minted :
                            /\ x.project_id = adm[1].project_id
                            /\ x.key_id = adm[1].key_id } }
                /\ UNCHANGED faulted
    /\ adm' = None
    /\ UNCHANGED <<now, keysets, meta, rate, audit>>
    /\ UNCHANGED <<callVars, codecVars>>
    /\ UNCHANGED <<minted, outcomes, rlCalls, allowed, nMints, nValidates>>
    /\ UNCHANGED <<walk, projects, creating, verify>>

\* A mutant: revoking also takes the key id out of the key-id sets.
RevokeSet_LeavesSet(fail) ==
    /\ adm # None
    /\ LET key == ApikeyKey(adm[1].project_id, adm[1].key_id)
       IN  IF fail \/ key \notin DOMAIN docs
           THEN /\ faulted' = (faulted \/ fail)
                /\ UNCHANGED <<docs, revoked>>
           ELSE /\ docs' = [docs EXCEPT ![key].disabled = TRUE]
                /\ revoked' = revoked \cup
                      { m.api_key : m \in { x \in minted :
                            /\ x.project_id = adm[1].project_id
                            /\ x.key_id = adm[1].key_id } }
                /\ UNCHANGED faulted
    /\ adm' = None
    /\ keysets' = [k \in DOMAIN keysets |-> keysets[k] \ {adm[1].key_id}]
    /\ UNCHANGED <<now, meta, rate, audit>>
    /\ UNCHANGED <<callVars, codecVars>>
    /\ UNCHANGED <<minted, outcomes, rlCalls, allowed, nMints, nValidates>>
    /\ UNCHANGED <<walk, projects, creating, verify>>

\* revoke_key, second round trip: revoke_api_key sets $.disabled = true
\* (JSON.SET on a missing key is an error) and the endpoint answers
\* {revoked: true}; on a RedisError it answers revocation_error.
RevokeSet(fail) ==
    /\ adm # None
    /\ LET key == ApikeyKey(adm[1].project_id, adm[1].key_id)
       IN  IF fail \/ key \notin DOMAIN docs
           THEN /\ faulted' = (faulted \/ fail)
                /\ UNCHANGED <<docs, revoked>>
           ELSE /\ docs' = [docs EXCEPT ![key].disabled = TRUE]
                /\ revoked' = revoked \cup
                      { m.api_key : m \in { x \in minted :
                            /\ x.project_id = adm[1].project_id
                            /\ x.key_id = adm[1].key_id } }
                /\ UNCHANGED faulted
    /\ adm' = None
    /\ UNCHANGED <<now, keysets, meta, rate, audit>>
    /\ UNCHANGED <<callVars, codecVars>>
    /\ UNCHANGED <<minted, outcomes, rlCalls, allowed, nMints, nValidates>>
    /\ UNCHANGED <<walk, projects, creating, verify>>

\* revoke_api_key's return value: False on a RedisError, which JSON.SET of
\* $.disabled on a missing key is.
RevokeApiKeyResult(pid, kid, fail) ==
    ~(fail \/ ApikeyKey(pid, kid) \notin DOMAIN docs)

\* A mutant: revoking a missing key is answered as done.
RevokeFetchAnswer_Succeeds(pid, kid, fail) ==
    IF GetApiKey(pid, kid, fail) = None
    THEN Exchange("revoke-key", [project_id |-> pid, key_id |-> kid],
                  IF fail THEN {"get"} ELSE {},
                  GetApiKey(pid, kid, FALSE),
                  RevokeKeyResponse(TRUE))
    ELSE None

\* What revoke_key answers after its first round trip: key_not_found when
\* get_api_key returned None, nothing yet otherwise.
RevokeFetchAnswer(pid, kid, fail) ==
    IF GetApiKey(pid, kid, fail) = None
    THEN Exchange("revoke-key", [project_id |-> pid, key_id |-> kid],
                  IF fail THEN {"get"} ELSE {},
                  GetApiKey(pid, kid, FALSE),
                  ErrorResponse("key_not_found", "API key not found", 404))
    ELSE None

\* A mutant: revoking a key that is disabled already is refused.
RevokeSetAnswer_Once(fail) ==
    Exchange("revoke-key", adm[1],
             IF fail THEN {"set"} ELSE {},
             GetApiKey(adm[1].project_id, adm[1].key_id, FALSE),
             IF ~RevokeApiKeyResult(adm[1].project_id, adm[1].key_id, fail)
             THEN ErrorResponse("revocation_error", "Failed to revoke API key", 500)
             ELSE IF docs[ApikeyKey(adm[1].project_id, adm[1].key_id)].disabled
             THEN ErrorResponse("already_revoked", "API key already revoked", 409)
             ELSE RevokeKeyResponse(TRUE))

\* What revoke_key answers after its second round trip: {revoked: true},
\* or revocation_error when revoke_api_key returned False.
RevokeSetAnswer(fail) ==
    Exchange("revoke-key", adm[1],
             IF fail THEN {"set"} ELSE {},
             GetApiKey(adm[1].project_id, adm[1].key_id, FALSE),
             IF ~RevokeApiKeyResult(adm[1].project_id, adm[1].key_id, fail)
             THEN ErrorResponse("revocation_error", "Failed to revoke API key", 500)
             ELSE RevokeKeyResponse(TRUE))

---------------------------------------------------------------------------
(* main.py: list_keys, with redis_client.py: list_project_keys, and the    *)
(* paging loop of examples/admin_example.py.                               *)

Range(f) == {f[i] : i \in DOMAIN f}

\* The orders in which SMEMBERS may return the members of a set.
Perms(S) ==
    { f \in [1..Cardinality(S) -> S] : \A i, j \in DOMAIN f : f[i] = f[j] => i = j }

\* self.client.smembers(project_keys)
Members(pid) ==
    IF ApiprojectkeysKey(pid) \in DOMAIN keysets THEN keysets[ApiprojectkeysKey(pid)]
    ELSE {}

\* key_ids[offset:offset + limit]
Slice(key_ids, offset, limit) ==
    SubSeq(key_ids, offset + 1, Min(offset + limit, Len(key_ids)))

\* list_project_keys over the documents of store: the slice of the key ids
\* in the order SMEMBERS gave them, then one get_api_key per id, keeping the
\* documents it returns; [] when SMEMBERS raises a RedisError.
ListProjectKeys(store, pid, offset, limit, key_ids, unreadable, fail) ==
    IF fail THEN <<>>
    ELSE LET paginated_key_ids == Slice(key_ids, offset, limit)
             found(key_id) == /\ key_id \notin unreadable
                              /\ ApikeyKey(pid, key_id) \in DOMAIN store
             kept == SelectSeq(paginated_key_ids, found)
         IN  [i \in 1..Len(kept) |-> store[ApikeyKey(pid, kept[i])]]

\* A mutant: the view of a key carries its secret_hash.
KeyMetadata_WithHash(doc) ==
    [ key_id |-> doc.key_id, owner |-> doc.owner, metadata |-> doc.metadata,
      created_at |-> doc.created_at, disabled |-> doc.disabled,
      expires_at |-> doc.expires_at, secret_hash |-> doc.secret_hash ]

\* KeyMetadata(key_id=doc.key_id, ..., expires_at=doc.expires_at)
KeyMetadata(doc) ==
    [ key_id |-> doc.key_id, owner |-> doc.owner, metadata |-> doc.metadata,
      created_at |-> doc.created_at, disabled |-> doc.disabled,
      expires_at |-> doc.expires_at ]

\* A mutant: a cursor is emitted for every page that is not empty.
NextToken_NonEmpty(offset, limit, n_items) ==
    IF n_items > 0 THEN Some(ToString(offset + limit)) ELSE None

\* next_token = str(offset + limit) if len(items) == limit, else None
NextToken(offset, limit, n_items) ==
    IF n_items = limit THEN Some(ToString(offset + limit)) ELSE None

ListKeysResponse(items, next) ==
    [status |-> 200, body |-> [items |-> items, next |-> next]]

\* What list_keys answers over the documents of store.
ListKeysAnswer(store, pid, offset, limit, key_ids, unreadable, fail) ==
    LET api_key_docs == ListProjectKeys(store, pid, offset, limit, key_ids,
                                        unreadable, fail)
        items == [i \in 1..Len(api_key_docs) |-> KeyMetadata(api_key_docs[i])]
    IN  ListKeysResponse(items, NextToken(offset, limit, Len(items)))

\* The store round trips of a list_keys request that met a RedisError.
ListErrs(pid, offset, limit, key_ids, unreadable, fail) ==
    IF fail THEN {"smembers"}
    ELSE IF Range(Slice(key_ids, offset, limit)) \cap unreadable # {} THEN {"get"}
    ELSE {}

ListKeysExchange(pid, offset, limit, key_ids, unreadable, fail) ==
    Exchange("list-keys",
             [project_id |-> pid, offset |-> offset, limit |-> limit],
             ListErrs(pid, offset, limit, key_ids, unreadable, fail),
             Some([key_ids |-> key_ids, unreadable |-> unreadable, fail |-> fail]),
             ListKeysAnswer(docs, pid, offset, limit, key_ids, unreadable, fail))

\* GET /v1/list-keys: the store is read and left as it is.
ListKeys(pid, offset, limit, key_ids, unreadable, fail) ==
    /\ key_ids \in Perms(Members(pid))
    /\ unreadable \subseteq Members(pid)
    /\ resp' = ListKeysExchange(pid, offset, limit, key_ids, unreadable, fail)
    /\ faulted' = (faulted \/ fail \/ unreadable # {})
    /\ UNCHANGED <<storeVars, callVars, codecVars>>
    /\ UNCHANGED <<adm, minted, revoked, outcomes, rlCalls, allowed, nMints, nValidates>>
    /\ UNCHANGED <<walk, projects, creating, verify>>

\* list_all_keys: all_keys = [], offset = 0, and the page size.
WalkStart(pid, limit) ==
    /\ walk = None
    /\ walk' = Some([ project_id |-> pid, limit |-> limit, offset |-> 0,
                      all_keys |-> <<>>, pages |-> 0, key_ids |-> None,
                      last |-> None,
                      mutated |-> FALSE, errs |-> {}, returned |-> FALSE ])
    /\ resp' = None
    /\ UNCHANGED <<storeVars, callVars, histVars, codecVars>>
    /\ UNCHANGED <<projects, creating, verify>>

\* The orders SMEMBERS may give on the next page of the walk: the order of
\* the page before while the set is what it was, any order once it changed.
WalkOrders(w) ==
    IF w.key_ids # None /\ Range(w.key_ids[1]) = Members(w.project_id)
    THEN {w.key_ids[1]}
    ELSE Perms(Members(w.project_id))

\* One turn of the loop of list_all_keys: a list_keys request at the
\* current offset, all_keys.extend(result.items), then break if next is None
\* or the page is short, else offset += limit.
WalkPage(key_ids, unreadable, fail) ==
    /\ walk # None
    /\ ~walk[1].returned
    /\ key_ids \in WalkOrders(walk[1])
    /\ unreadable \subseteq Members(walk[1].project_id)
    /\ LET w      == walk[1]
           result == ListKeysAnswer(docs, w.project_id, w.offset, w.limit,
                                    key_ids, unreadable, fail)
           stop   == result.body.next = None \/ Len(result.body.items) < w.limit
       IN  /\ walk' = Some([w EXCEPT
                    !.all_keys = @ \o result.body.items,
                    !.pages    = @ + 1,
                    !.last     = Some([offset |-> w.offset, result |-> result]),
                    !.key_ids  = Some(key_ids),
                    !.mutated  = @ \/ (w.key_ids # None /\ w.key_ids[1] # key_ids),
                    !.errs     = @ \cup ListErrs(w.project_id, w.offset, w.limit,
                                                 key_ids, unreadable, fail),
                    !.offset   = IF stop THEN @ ELSE @ + w.limit,
                    !.returned = stop ])
    /\ resp' = None
    /\ faulted' = (faulted \/ fail \/ unreadable # {})
    /\ UNCHANGED <<storeVars, callVars, codecVars>>
    /\ UNCHANGED <<adm, minted, revoked, outcomes, rlCalls, allowed, nMints, nValidates>>
    /\ UNCHANGED <<projects, creating, verify>>

---------------------------------------------------------------------------
(* main.py: create_project and get_project, with redis_client.py:          *)
(* get_project and store_project.                                          *)

ProjectDocument(pid, label, owner, created) ==
    [project_id |-> pid, label |-> label, owner |-> owner, created_at |-> created]

\* redis_client.get_project: the document, or None when it is absent or the
\* read fails
GetProjectDoc(pid, fail) ==
    IF fail \/ ProjectKey(pid) \notin DOMAIN projects THEN None
    ELSE Some(projects[ProjectKey(pid)])

\* A mutant: a failed store_project is reported under a code of its own.
CreateProjectAnswer_CreationError(project_doc, fail) ==
    IF fail THEN ErrorResponse("creation_error", "Failed to create project", 500)
    ELSE [status |-> 200, body |-> [project_id |-> project_doc.project_id, created |-> TRUE]]

\* What create_project answers once store_project has returned.
CreateProjectAnswer(project_doc, fail) ==
    IF fail
    THEN ErrorResponse("storage_error", "Failed to create project", 500)
    ELSE [ status |-> 200,
           body |-> [project_id |-> project_doc.project_id, created |-> TRUE] ]

\* create_project, first round trip: project_exists if get_project returns
\* a document, else the new document is built.  The request in flight keeps
\* what the store held when it was checked.
CreateFetch(pid, label, owner, fail) ==
    /\ IF GetProjectDoc(pid, fail) # None
       THEN /\ resp' = Exchange("create-project",
                                [project_id |-> pid, label |-> label, owner |-> owner],
                                {},
                                [ checked |-> GetProjectDoc(pid, FALSE),
                                  stored  |-> GetProjectDoc(pid, FALSE) ],
                                ErrorResponse("project_exists", "Project already exists", 409))
            /\ UNCHANGED creating
       ELSE /\ resp' = None
            /\ creating' = creating \cup
                   { [ project_doc |-> ProjectDocument(pid, label, owner, now),
                       checked     |-> GetProjectDoc(pid, FALSE),
                       errs        |-> IF fail THEN {"get"} ELSE {} ] }
    /\ faulted' = (faulted \/ fail)
    /\ UNCHANGED <<storeVars, callVars, codecVars>>
    /\ UNCHANGED <<adm, minted, revoked, outcomes, rlCalls, allowed, nMints, nValidates>>
    /\ UNCHANGED <<walk, projects, verify>>

\* create_project, second round trip: store_project writes the document
\* under the project's key, whatever is there, and the endpoint answers
\* {project_id, created: true}; storage_error on a RedisError.
CreateStore(request, fail) ==
    /\ request \in creating
    /\ creating' = creating \ {request}
    /\ projects' = IF fail THEN projects
                   ELSE Put(projects, ProjectKey(request.project_doc.project_id),
                            request.project_doc)
    /\ resp' = Exchange("create-project",
                        [project_id |-> request.project_doc.project_id,
                         label |-> request.project_doc.label,
                         owner |-> request.project_doc.owner],
                        request.errs \cup (IF fail THEN {"store"} ELSE {}),
                        [ checked |-> request.checked,
                          stored  |-> GetProjectDoc(request.project_doc.project_id, FALSE) ],
                        CreateProjectAnswer(request.project_doc, fail))
    /\ faulted' = (faulted \/ fail)
    /\ UNCHANGED <<storeVars, callVars, codecVars>>
    /\ UNCHANGED <<adm, minted, revoked, outcomes, rlCalls, allowed, nMints, nValidates>>
    /\ UNCHANGED <<walk, verify>>

\* GET /v1/admin/project/{project_id}: the document, or project_not_found
\* when get_project returns None.
GetProject(pid, fail) ==
    /\ resp' = Exchange("get-project", [project_id |-> pid],
                        IF fail THEN {"get"} ELSE {},
                        GetProjectDoc(pid, FALSE),
                        IF GetProjectDoc(pid, fail) = None
                        THEN ErrorResponse("project_not_found", "Project not found", 404)
                        ELSE [status |-> 200, body |-> GetProjectDoc(pid, fail)[1]])
    /\ faulted' = (faulted \/ fail)
    /\ UNCHANGED <<storeVars, callVars, codecVars>>
    /\ UNCHANGED <<adm, minted, revoked, outcomes, rlCalls, allowed, nMints, nValidates>>
    /\ UNCHANGED <<walk, projects, creating, verify>>

---------------------------------------------------------------------------
(* redis_client.py: validate_api_key.  Every store round trip is a step of *)
(* its own, so calls of different requests interleave between them.        *)

\* A mutant: the event is dropped without an error.
LogAuditEvent_Drops(p, event, fail) ==
    /\ faulted' = (faulted \/ fail)
    /\ UNCHANGED <<audit, eff>>

\* log_audit_event: XADD of the event's stream fields; a RedisError is
\* logged and nothing is appended.
LogAuditEvent(p, event, fail) ==
    IF fail
    THEN /\ faulted' = TRUE
         /\ eff' = [eff EXCEPT ![p].errs = @ \cup {"audit"}]
         /\ UNCHANGED audit
    ELSE /\ audit' = Append(audit, ToStreamFields(event))
         /\ eff' = [eff EXCEPT ![p].events = Append(@, ToStreamFields(event))]
         /\ UNCHANGED faulted

\* A mutant: an unparseable string is audited as denied.
ValidateStart_AuditsMalformed(p, s) ==
    /\ pc[p] = "idle"
    /\ p = "v2" => pc["v1"] # "idle"
    /\ nValidates' = nValidates + 1
    /\ api_key' = [api_key EXCEPT ![p] = s]
    /\ parsed_key' = [parsed_key EXCEPT ![p] = Parse(s)]
    /\ IF Parse(s) = InvalidFormat
       THEN /\ pc' = [pc EXCEPT ![p] = "done"]
            /\ audit' = Append(audit, ToStreamFields(AuditEvent(<<>>, <<>>, "denied", now)))
            /\ eff' = [eff EXCEPT ![p].events =
                          Append(@, ToStreamFields(AuditEvent(<<>>, <<>>, "denied", now))),
                                  ![p].handle = Some(RedisValidator)]
       ELSE /\ pc' = [pc EXCEPT ![p] = "lookup"]
            /\ eff' = [eff EXCEPT ![p].after_revoke = (s \in revoked),
                                  ![p].handle = Some(RedisValidator)]
            /\ UNCHANGED audit
    /\ UNCHANGED <<now, docs, keysets, meta, rate>>
    /\ UNCHANGED <<api_key_doc, ret>>
    /\ UNCHANGED <<adm, minted, revoked, outcomes, rlCalls, allowed, nMints, faulted>>
    /\ UNCHANGED codecVars
    /\ Silent

\* validate_api_key is called with a string and parses it: on ValueError
\* it returns None at once.
ValidateStart(p, s) ==
    /\ pc[p] = "idle"
    /\ p = "v2" => pc["v1"] # "idle"
    /\ nValidates' = nValidates + 1
    /\ api_key' = [api_key EXCEPT ![p] = s]
    /\ parsed_key' = [parsed_key EXCEPT ![p] = Parse(s)]
    /\ pc' = [pc EXCEPT ![p] = IF Parse(s) = InvalidFormat THEN "done" ELSE "lookup"]
    /\ eff' = [eff EXCEPT ![p].after_revoke = (s \in revoked),
                          ![p].handle = Some(RedisValidator)]
    /\ UNCHANGED storeVars
    /\ UNCHANGED <<api_key_doc, ret>>
    /\ UNCHANGED <<adm, minted, revoked, outcomes, rlCalls, allowed, nMints, faulted>>
    /\ UNCHANGED codecVars
    /\ Silent

\* A mutant: the secret is verified before the liveness check.
VerifyReached_BeforeLiveness(found, t) == found # None

\* validate_api_key reaches the call of verify_password: the document was
\* found and is_valid() held, so neither early return was taken.
VerifyReached(found, t) == found # None /\ IsValid(found[1], t)

\* get_api_key, then is_valid and verify_password on the document read:
\* the call goes on to the rate limit only if all three pass.
ValidateLookup(p, fail) ==
    /\ pc[p] = "lookup"
    /\ LET parsed == parsed_key[p][1]
           found  == GetApiKey(parsed.project_id, parsed.key_id, fail)
           pass   == /\ VerifyReached(found, now)
                     /\ VerifyPassword(parsed.secret, found[1].secret_hash)
           \* except Exception: return None, without an audit event
           raised == /\ VerifyReached(found, now)
                     /\ VerifyPasswordCall(parsed.secret, found[1].secret_hash).raised # <<>>
       IN  /\ api_key_doc' = [api_key_doc EXCEPT ![p] = found]
           /\ pc' = [pc EXCEPT ![p] = IF pass THEN "rate"
                                      ELSE IF raised THEN "done"
                                      ELSE "audit_denied"]
           /\ eff' = [eff EXCEPT ![p].checked_at = Some(now),
                                 ![p].verified = VerifyReached(found, now),
                                 ![p].errs = IF fail THEN @ \cup {"get"}
                                             ELSE IF raised THEN @ \cup {"hasher"}
                                             ELSE @]
    /\ faulted' = (faulted \/ fail)
    /\ UNCHANGED storeVars
    /\ UNCHANGED <<api_key, parsed_key, ret>>
    /\ UNCHANGED <<adm, minted, revoked, outcomes, rlCalls, allowed, nMints, nValidates>>
    /\ UNCHANGED codecVars
    /\ Silent

\* The "denied" audit event of the three rejections, then return None.
ValidateAuditDenied(p, fail) ==
    /\ pc[p] = "audit_denied"
    /\ LogAuditEvent(p, AuditEvent(parsed_key[p][1].project_id, parsed_key[p][1].key_id,
                                   "denied", now), fail)
    /\ pc' = [pc EXCEPT ![p] = "done"]
    /\ UNCHANGED <<now, docs, keysets, meta, rate>>
    /\ UNCHANGED <<api_key, parsed_key, api_key_doc, ret>>
    /\ UNCHANGED <<adm, minted, revoked, outcomes, rlCalls, allowed, nMints, nValidates>>
    /\ UNCHANGED codecVars
    /\ Silent

\* A mutant: the rate limiter denies when the store fails.
RateLimitOnError_Deny == FALSE

\* check_rate_limit, except redis.RedisError: return True (fail open)
RateLimitOnError == TRUE

\* check_rate_limit: INCR and EXPIRE of the minute's counter in one
\* pipeline; allow if the count is within the limit, and on a RedisError.
ValidateRateGate(p, fail) ==
    /\ pc[p] = "rate"
    /\ LET parsed   == parsed_key[p][1]
           minute   == CurrentMinute(now)
           rate_key == RatelimitKey(parsed.project_id, parsed.key_id, minute)
           current_count == IF rate_key \in DOMAIN rate
                            THEN rate[rate_key].count + 1 ELSE 1
           bucket   == <<parsed.project_id, parsed.key_id, now \div 60>>
           calls    == IF bucket \in DOMAIN rlCalls THEN rlCalls[bucket] + 1 ELSE 1
           instant  == <<parsed.project_id, parsed.key_id, now>>
           passes   == IF instant \in DOMAIN allowed THEN allowed[instant] + 1 ELSE 1
       IN  /\ rlCalls' = Put(rlCalls, bucket, calls)
           /\ IF fail
              THEN /\ faulted' = TRUE
                   /\ eff' = [eff EXCEPT ![p].errs = @ \cup {"rate"},
                                         ![p].rank = Some(calls)]
                   /\ pc' = [pc EXCEPT ![p] =
                                IF RateLimitOnError THEN "audit_ok" ELSE "audit_rl"]
                   /\ UNCHANGED rate
              ELSE /\ rate' = Put(rate, rate_key,
                                  [count |-> current_count, expire_at |-> RateExpiry(now)])
                   /\ eff' = [eff EXCEPT ![p].rank = Some(calls)]
                   /\ pc' = [pc EXCEPT ![p] =
                                IF WithinLimit(current_count, LimitPerMinute)
                                THEN "audit_ok" ELSE "audit_rl"]
                   /\ UNCHANGED faulted
           /\ allowed' = IF pc'[p] = "audit_ok" THEN Put(allowed, instant, passes)
                         ELSE allowed
    /\ UNCHANGED <<now, docs, keysets, meta, audit>>
    /\ UNCHANGED <<api_key, parsed_key, api_key_doc, ret>>
    /\ UNCHANGED <<adm, minted, revoked, outcomes, nMints, nValidates>>
    /\ UNCHANGED codecVars
    /\ Silent

\* The "rate_limited" audit event, then return None.
ValidateAuditRateLimited(p, fail) ==
    /\ pc[p] = "audit_rl"
    /\ LogAuditEvent(p, AuditEvent(parsed_key[p][1].project_id, parsed_key[p][1].key_id,
                                   "rate_limited", now), fail)
    /\ pc' = [pc EXCEPT ![p] = "done"]
    /\ UNCHANGED <<now, docs, keysets, meta, rate>>
    /\ UNCHANGED <<api_key, parsed_key, api_key_doc, ret>>
    /\ UNCHANGED <<adm, minted, revoked, outcomes, rlCalls, allowed, nMints, nValidates>>
    /\ UNCHANGED codecVars
    /\ Silent

\* The "ok" audit event of a successful validation.
ValidateAuditOk(p, fail) ==
    /\ pc[p] = "audit_ok"
    /\ LogAuditEvent(p, AuditEvent(parsed_key[p][1].project_id, parsed_key[p][1].key_id,
                                   "ok", now), fail)
    /\ pc' = [pc EXCEPT ![p] = "usage"]
    /\ UNCHANGED <<now, docs, keysets, meta, rate>>
    /\ UNCHANGED <<api_key, parsed_key, api_key_doc, ret>>
    /\ UNCHANGED <<adm, minted, revoked, outcomes, rlCalls, allowed, nMints, nValidates>>
    /\ UNCHANGED codecVars
    /\ Silent

\* A mutant: the usage count is incremented twice.
UsageIncrement_Twice(count) == count + 2

\* pipe.hincrby(meta_key, "usage_count", 1)
UsageIncrement(count) == count + 1

\* A mutant: a RedisError of the usage update turns the result into a
\* rejection.
ValidateUpdateUsage_Surfaces(p, fail) ==
    /\ pc[p] = "usage"
    /\ LET parsed   == parsed_key[p][1]
           meta_key == ApimetaKey(parsed.project_id, parsed.key_id)
           before   == IF meta_key \in DOMAIN meta THEN meta[meta_key].usage_count ELSE 0
       IN  IF fail
           THEN /\ faulted' = TRUE
                /\ eff' = [eff EXCEPT ![p].errs = @ \cup {"usage"}]
                /\ UNCHANGED meta
           ELSE /\ meta' = Put(meta, meta_key,
                               [usage_count |-> UsageIncrement(before),
                                last_used |-> Some(now)])
                /\ eff' = [eff EXCEPT ![p].usage =
                              Append(@, [key |-> meta_key,
                                         delta |-> UsageIncrement(before) - before])]
                /\ UNCHANGED faulted
    /\ ret' = [ret EXCEPT ![p] = IF fail THEN None ELSE api_key_doc[p]]
    /\ pc' = [pc EXCEPT ![p] = "done"]
    /\ UNCHANGED <<now, docs, keysets, rate, audit>>
    /\ UNCHANGED <<api_key, parsed_key, api_key_doc>>
    /\ UNCHANGED <<adm, minted, revoked, outcomes, rlCalls, allowed, nMints, nValidates>>
    /\ UNCHANGED codecVars
    /\ Silent

\* A mutant: the usage update also writes the document of the key.
ValidateUpdateUsage_TouchesDocument(p, fail) ==
    /\ pc[p] = "usage"
    /\ LET parsed   == parsed_key[p][1]
           meta_key == ApimetaKey(parsed.project_id, parsed.key_id)
           before   == IF meta_key \in DOMAIN meta THEN meta[meta_key].usage_count ELSE 0
       IN  IF fail
           THEN /\ faulted' = TRUE
                /\ eff' = [eff EXCEPT ![p].errs = @ \cup {"usage"}]
                /\ UNCHANGED meta
           ELSE /\ meta' = Put(meta, meta_key,
                               [usage_count |-> UsageIncrement(before),
                                last_used |-> Some(now)])
                /\ eff' = [eff EXCEPT ![p].usage =
                              Append(@, [key |-> meta_key,
                                         delta |-> UsageIncrement(before) - before])]
                /\ UNCHANGED faulted
    /\ ret' = [ret EXCEPT ![p] = api_key_doc[p]]
    /\ pc' = [pc EXCEPT ![p] = "done"]
    /\ docs' = [docs EXCEPT ![ApikeyKey(parsed_key[p][1].project_id,
                                       parsed_key[p][1].key_id)].disabled = TRUE]
    /\ UNCHANGED <<now, keysets, rate, audit>>
    /\ UNCHANGED <<api_key, parsed_key, api_key_doc>>
    /\ UNCHANGED <<adm, minted, revoked, outcomes, rlCalls, allowed, nMints, nValidates>>
    /\ UNCHANGED codecVars
    /\ Silent

\* update_key_usage (HINCRBY usage_count, HSET last_used; a RedisError is
\* logged), then return the document.
ValidateUpdateUsage(p, fail) ==
    /\ pc[p] = "usage"
    /\ LET parsed   == parsed_key[p][1]
           meta_key == ApimetaKey(parsed.project_id, parsed.key_id)
           before   == IF meta_key \in DOMAIN meta THEN meta[meta_key].usage_count ELSE 0
       IN  IF fail
           THEN /\ faulted' = TRUE
                /\ eff' = [eff EXCEPT ![p].errs = @ \cup {"usage"}]
                /\ UNCHANGED meta
           ELSE /\ meta' = Put(meta, meta_key,
                               [usage_count |-> UsageIncrement(before),
                                last_used |-> Some(now)])
                /\ eff' = [eff EXCEPT ![p].usage =
                              Append(@, [key |-> meta_key,
                                         delta |-> UsageIncrement(before) - before])]
                /\ UNCHANGED faulted
    /\ ret' = [ret EXCEPT ![p] = api_key_doc[p]]
    /\ pc' = [pc EXCEPT ![p] = "done"]
    /\ UNCHANGED <<now, docs, keysets, rate, audit>>
    /\ UNCHANGED <<api_key, parsed_key, api_key_doc>>
    /\ UNCHANGED <<adm, minted, revoked, outcomes, rlCalls, allowed, nMints, nValidates>>
    /\ UNCHANGED codecVars
    /\ Silent

\* The call has returned: its result is counted and its frame is dropped.
ValidateReturn(p) ==
    /\ pc[p] = "done"
    /\ LET old == IF api_key[p] \in DOMAIN outcomes THEN outcomes[api_key[p]]
                  ELSE [ok |-> 0, rejected |-> 0]
       IN  outcomes' = Put(outcomes, api_key[p],
                           IF ret[p] # None
                           THEN [old EXCEPT !.ok = @ + 1]
                           ELSE [old EXCEPT !.rejected = @ + 1])
    /\ pc' = [pc EXCEPT ![p] = "idle"]
    /\ api_key' = [api_key EXCEPT ![p] = <<>>]
    /\ parsed_key' = [parsed_key EXCEPT ![p] = None]
    /\ api_key_doc' = [api_key_doc EXCEPT ![p] = None]
    /\ ret' = [ret EXCEPT ![p] = None]
    /\ eff' = [eff EXCEPT ![p] = NoEff]
    /\ UNCHANGED storeVars
    /\ UNCHANGED <<adm, minted, revoked, rlCalls, allowed, nMints, nValidates, faulted>>
    /\ UNCHANGED codecVars
    /\ Silent

---------------------------------------------------------------------------
(* The specifications. *)

Init ==
    /\ now = 0
    /\ docs = EmptyMap
    /\ keysets = EmptyMap
    /\ meta = EmptyMap
    /\ rate = EmptyMap
    /\ audit = <<>>
    /\ pc = [p \in Procs |-> "idle"]
    /\ api_key = [p \in Procs |-> <<>>]
    /\ parsed_key = [p \in Procs |-> None]
    /\ api_key_doc = [p \in Procs |-> None]
    /\ ret = [p \in Procs |-> None]
    /\ eff = [p \in Procs |-> NoEff]
    /\ adm = None
    /\ minted = {}
    /\ revoked = {}
    /\ outcomes = EmptyMap
    /\ rlCalls = EmptyMap
    /\ allowed = EmptyMap
    /\ nMints = 0
    /\ nValidates = 0
    /\ faulted = FALSE
    /\ cin = <<>>
    /\ cstage = "off"
    /\ cparsed = None
    /\ cout = <<>>
    /\ resp = None
    /\ walk = None
    /\ projects = EmptyMap
    /\ creating = {}
    /\ verify = None

\* The clock's instants: the expiry time, and the next minute.
Instants == {0, 60}

\* MintKeyRequest.expires_at: None, or a time the clock passes
ExpiresChoices == {None, Some(0)}

Presentable == Issued \cup {Forged(PlainProject, KeyA), Malformed}

\* The service: one project and key id, two workers, every store round
\* trip free to fail.
Next ==
    \/ \E t \in Instants : Tick(t)
    \/ /\ nMints < MaxMints
       /\ \E owner \in Owners, metadata \in Metadatas, expires \in ExpiresChoices,
             fail \in BOOLEAN :
             MintKey(PlainProject, KeyA, owner, metadata, expires, fail) /\ Unrecorded
    \/ \E fail \in BOOLEAN : RevokeFetch(PlainProject, KeyA, fail) /\ Unrecorded
    \/ \E fail \in BOOLEAN : RevokeSet(fail) /\ Unrecorded
    \/ /\ nValidates < MaxValidates
       /\ \E p \in Procs, s \in Presentable : ValidateStart(p, s)
    \/ \E p \in Procs, fail \in BOOLEAN : ValidateLookup(p, fail)
    \/ \E p \in Procs, fail \in BOOLEAN : ValidateAuditDenied(p, fail)
    \/ \E p \in Procs, fail \in BOOLEAN : ValidateRateGate(p, fail)
    \/ \E p \in Procs, fail \in BOOLEAN : ValidateAuditRateLimited(p, fail)
    \/ \E p \in Procs, fail \in BOOLEAN : ValidateAuditOk(p, fail)
    \/ \E p \in Procs, fail \in BOOLEAN : ValidateUpdateUsage(p, fail)
    \/ \E p \in Procs : ValidateReturn(p)

Spec == Init /\ [][Next]_vars

\* The codec alone, on every input string of the bounded set.
InitCodec ==
    /\ now = 0
    /\ docs = EmptyMap
    /\ keysets = EmptyMap
    /\ meta = EmptyMap
    /\ rate = EmptyMap
    /\ audit = <<>>
    /\ pc = [p \in Procs |-> "idle"]
    /\ api_key = [p \in Procs |-> <<>>]
    /\ parsed_key = [p \in Procs |-> None]
    /\ api_key_doc = [p \in Procs |-> None]
    /\ ret = [p \in Procs |-> None]
    /\ eff = [p \in Procs |-> NoEff]
    /\ adm = None
    /\ minted = {}
    /\ revoked = {}
    /\ outcomes = EmptyMap
    /\ rlCalls = EmptyMap
    /\ allowed = EmptyMap
    /\ nMints = 0
    /\ nValidates = 0
    /\ faulted = FALSE
    /\ cin \in CodecInputs
    /\ cstage = "new"
    /\ cparsed = None
    /\ cout = <<>>
    /\ resp = None
    /\ walk = None
    /\ projects = EmptyMap
    /\ creating = {}
    /\ verify = None

NextCodec == CodecParse \/ CodecFormat

SpecCodec == InitCodec /\ [][NextCodec]_vars

\* Revocation: a key id that mint may draw again, revokes and validates
\* interleaved at every store round trip; the store may fail the manager's
\* round trips.
NextRevoke ==
    \/ /\ nMints < RevMaxMints
       /\ \E fail \in BOOLEAN : MintKey(PlainProject, KeyA, "alice", "srv-a", None, fail) /\ Unrecorded
    \/ \E fail \in BOOLEAN : RevokeFetch(PlainProject, KeyA, fail) /\ Unrecorded
    \/ \E fail \in BOOLEAN : RevokeSet(fail) /\ Unrecorded
    \/ /\ nValidates < RevMaxValidates
       /\ \E p \in Procs, s \in Issued : ValidateStart(p, s)
    \/ \E p \in Procs : ValidateLookup(p, FALSE)
    \/ \E p \in Procs : ValidateAuditDenied(p, FALSE)
    \/ \E p \in Procs : ValidateRateGate(p, FALSE)
    \/ \E p \in Procs : ValidateAuditRateLimited(p, FALSE)
    \/ \E p \in Procs : ValidateAuditOk(p, FALSE)
    \/ \E p \in Procs : ValidateUpdateUsage(p, FALSE)
    \/ \E p \in Procs : ValidateReturn(p)

SpecRevoke == Init /\ [][NextRevoke]_vars

\* Two instants in one minute, the next minute, and the time a counter of
\* the first minute has expired.
RateInstants == {0, 30, 60, 120}

\* MintKeyRequest.expires_at: None, or an instant of the first minute
RateExpiresChoices == {None, Some(30)}

\* The service without store errors: one key, minted once, two workers, the
\* clock moving across minutes and past the key's expiry.
NextRate ==
    \/ \E t \in RateInstants : Tick(t)
    \/ /\ minted = {}
       /\ \E expires \in RateExpiresChoices :
             MintKey(PlainProject, KeyA, "alice", "srv-a", expires, FALSE) /\ Unrecorded
    \/ /\ nValidates < RateMaxValidates
       /\ \E p \in Procs, s \in Issued \cup {Forged(PlainProject, KeyA), Malformed} :
             ValidateStart(p, s)
    \/ \E p \in Procs : ValidateLookup(p, FALSE)
    \/ \E p \in Procs : ValidateAuditDenied(p, FALSE)
    \/ \E p \in Procs : ValidateRateGate(p, FALSE)
    \/ \E p \in Procs : ValidateAuditRateLimited(p, FALSE)
    \/ \E p \in Procs : ValidateAuditOk(p, FALSE)
    \/ \E p \in Procs : ValidateUpdateUsage(p, FALSE)
    \/ \E p \in Procs : ValidateReturn(p)

SpecRate == Init /\ [][NextRate]_vars

\* Validation against a store that may fail any of its round trips: one
\* key, minted once, revoked at any time, two workers.
NextAudit ==
    \/ \E t \in Instants : Tick(t)
    \/ /\ minted = {}
       /\ \E expires \in ExpiresChoices :
             MintKey(PlainProject, KeyA, "alice", "srv-a", expires, FALSE) /\ Unrecorded
    \/ RevokeFetch(PlainProject, KeyA, FALSE) /\ Unrecorded
    \/ RevokeSet(FALSE) /\ Unrecorded
    \/ /\ nValidates < AuditMaxValidates
       /\ \E p \in Procs, s \in Presentable : ValidateStart(p, s)
    \/ \E p \in Procs, fail \in BOOLEAN : ValidateLookup(p, fail)
    \/ \E p \in Procs, fail \in BOOLEAN : ValidateAuditDenied(p, fail)
    \/ \E p \in Procs, fail \in BOOLEAN : ValidateRateGate(p, fail)
    \/ \E p \in Procs, fail \in BOOLEAN : ValidateAuditRateLimited(p, fail)
    \/ \E p \in Procs, fail \in BOOLEAN : ValidateAuditOk(p, fail)
    \/ \E p \in Procs, fail \in BOOLEAN : ValidateUpdateUsage(p, fail)
    \/ \E p \in Procs : ValidateReturn(p)

SpecAudit == Init /\ [][NextAudit]_vars

\* The admin endpoints, answers recorded: two key ids in one project,
\* every store round trip of mint, revoke and the project endpoints free
\* to fail, and the first pages of the key list.
AdminKeyIds == {KeyA, KeyB}

AdminOffsets == {0, 1}

AdminLimits == {1, 2}

AdminLabels == {"main"}

NextAdmin ==
    \/ /\ nMints < AdminMaxMints
       /\ \E key_id \in AdminKeyIds, fail \in BOOLEAN :
             /\ MintKey(PlainProject, key_id, "alice", "srv-a", None, fail)
             /\ resp' = MintKeyAnswer(PlainProject, key_id, "alice", "srv-a", None, fail)
    \/ \E kid \in AdminKeyIds, fail \in BOOLEAN :
          /\ RevokeFetch(PlainProject, kid, fail)
          /\ resp' = RevokeFetchAnswer(PlainProject, kid, fail)
    \/ \E fail \in BOOLEAN : RevokeSet(fail) /\ resp' = RevokeSetAnswer(fail)
    \/ \E offset \in AdminOffsets, limit \in AdminLimits,
          key_ids \in Perms(Members(PlainProject)) :
          ListKeys(PlainProject, offset, limit, key_ids, {}, FALSE)
    \/ \E label \in AdminLabels, fail \in BOOLEAN :
          CreateFetch(PlainProject, label, "alice", fail)
    \/ \E request \in creating, fail \in BOOLEAN : CreateStore(request, fail)
    \/ \E fail \in BOOLEAN : GetProject(PlainProject, fail)

SpecAdmin == Init /\ [][NextAdmin]_vars

\* Every writer of the store together: mint over two key ids, with its
\* transaction free to fail, revoke, a validate worker and the first page
\* of the key list.
NextStore ==
    \/ /\ nMints < StoreMaxMints
       /\ \E key_id \in AdminKeyIds, fail \in BOOLEAN :
             MintKey(PlainProject, key_id, "alice", "srv-a", None, fail) /\ Unrecorded
    \/ \E kid \in AdminKeyIds : RevokeFetch(PlainProject, kid, FALSE) /\ Unrecorded
    \/ RevokeSet(FALSE) /\ Unrecorded
    \/ \E key_ids \in Perms(Members(PlainProject)) :
          ListKeys(PlainProject, 0, 2, key_ids, {}, FALSE)
    \/ /\ nValidates < StoreMaxValidates
       /\ \E s \in Issued : ValidateStart("v1", s)
    \/ ValidateLookup("v1", FALSE)
    \/ ValidateAuditDenied("v1", FALSE)
    \/ ValidateRateGate("v1", FALSE)
    \/ ValidateAuditRateLimited("v1", FALSE)
    \/ ValidateAuditOk("v1", FALSE)
    \/ ValidateUpdateUsage("v1", FALSE)
    \/ ValidateReturn("v1")

SpecStore == Init /\ [][NextStore]_vars

\* The validate endpoint beside a project record and a key: create_project,
\* one mint, revoke, and validate requests of one caller whose store round
\* trips may each fail.
FrameMaxValidates == 2

NextFrame ==
    \/ \E t \in Instants : Tick(t)
    \/ /\ creating = {}
       /\ GetProjectDoc(PlainProject, FALSE) = None
       /\ CreateFetch(PlainProject, "main", "alice", FALSE)
    \/ \E request \in creating : CreateStore(request, FALSE)
    \/ /\ minted = {}
       /\ MintKey(PlainProject, KeyA, "alice", "srv-a", None, FALSE) /\ Unrecorded
    \/ RevokeFetch(PlainProject, KeyA, FALSE) /\ Unrecorded
    \/ RevokeSet(FALSE) /\ Unrecorded
    \/ /\ nValidates < FrameMaxValidates
       /\ \E s \in Presentable : ValidateStart("v1", s)
    \/ \E fail \in BOOLEAN : ValidateLookup("v1", fail)
    \/ \E fail \in BOOLEAN : ValidateAuditDenied("v1", fail)
    \/ \E fail \in BOOLEAN : ValidateRateGate("v1", fail)
    \/ \E fail \in BOOLEAN : ValidateAuditRateLimited("v1", fail)
    \/ \E fail \in BOOLEAN : ValidateAuditOk("v1", fail)
    \/ \E fail \in BOOLEAN : ValidateUpdateUsage("v1", fail)
    \/ ValidateReturn("v1")

SpecFrame == Init /\ [][NextFrame]_vars

\* The project endpoints alone, answers recorded: one project id, two
\* labels, the clock moving, requests overlapping, every round trip free to
\* fail.
ProjectLabels == {"main", "other"}

NextProject ==
    \/ \E t \in Instants : Tick(t)
    \/ /\ Cardinality(creating) < ProjectMaxRequests
       /\ \E label \in ProjectLabels, fail \in BOOLEAN :
             CreateFetch(PlainProject, label, "alice", fail)
    \/ \E request \in creating, fail \in BOOLEAN : CreateStore(request, fail)
    \/ \E fail \in BOOLEAN : GetProject(PlainProject, fail)

SpecProject == Init /\ [][NextProject]_vars

\* A client paging through the keys of one project while keys are minted;
\* every read of a page is free to fail.
WalkKeyIds == {KeyA, KeyB, KeyC}

NextWalk ==
    \/ \E key_id \in WalkKeyIds \ Members(PlainProject) :
          MintKey(PlainProject, key_id, "alice", "srv-a", None, FALSE) /\ Unrecorded
    \/ \E limit \in 1..WalkMaxLimit : WalkStart(PlainProject, limit)
    \/ /\ walk # None
       /\ \E key_ids \in Perms(Members(PlainProject)),
             unreadable \in SUBSET Members(PlainProject), fail \in BOOLEAN :
             WalkPage(key_ids, unreadable, fail)

SpecWalk == Init /\ [][NextWalk]_vars

\* list_keys alone, answers recorded: every offset and limit up to the
\* bounds, every order of the set, the read of the set or of one document
\* free to fail, while keys are minted.
NextList ==
    \/ \E key_id \in WalkKeyIds \ Members(PlainProject) :
          MintKey(PlainProject, key_id, "alice", "srv-a", None, FALSE) /\ Unrecorded
    \/ \E offset \in 0..ListMaxOffset, limit \in 1..ListMaxLimit,
          key_ids \in Perms(Members(PlainProject)) :
          \/ ListKeys(PlainProject, offset, limit, key_ids, {}, FALSE)
          \/ ListKeys(PlainProject, offset, limit, key_ids, {}, TRUE)
          \/ \E key_id \in Members(PlainProject) :
                ListKeys(PlainProject, offset, limit, key_ids, {key_id}, FALSE)

SpecList == Init /\ [][NextList]_vars

\* Every way validate_api_key rejects, with a reliable store: one key is
\* minted, with or without an expiry, and may be revoked; the issued
\* credential, a forged one and an unparseable string are presented.
NextReject ==
    \/ \E t \in Instants : Tick(t)
    \/ /\ minted = {}
       /\ \E expires \in ExpiresChoices :
             MintKey(PlainProject, KeyA, "alice", "srv-a", expires, FALSE) /\ Unrecorded
    \/ RevokeFetch(PlainProject, KeyA, FALSE) /\ Unrecorded
    \/ RevokeSet(FALSE) /\ Unrecorded
    \/ /\ nValidates < RejectMaxValidates
       /\ \E p \in Procs, s \in Presentable : ValidateStart(p, s)
    \/ \E p \in Procs : ValidateLookup(p, FALSE)
    \/ \E p \in Procs : ValidateAuditDenied(p, FALSE)
    \/ \E p \in Procs : ValidateRateGate(p, FALSE)
    \/ \E p \in Procs : ValidateAuditRateLimited(p, FALSE)
    \/ \E p \in Procs : ValidateAuditOk(p, FALSE)
    \/ \E p \in Procs : ValidateUpdateUsage(p, FALSE)
    \/ \E p \in Procs : ValidateReturn(p)

SpecReject == Init /\ [][NextReject]_vars

\* verify_password alone, on every pair of a password and a hash string.
VerifyPasswords == {GenerateSecret(n) : n \in 1..VerifyMaxSecrets} \cup {WrongSecret}

VerifyHashes == {HashPassword(pw) : pw \in VerifyPasswords} \cup MalformedHashes

VerifyCall ==
    /\ verify # None
    /\ verify[1].outcome = None
    /\ verify' = Some([verify[1] EXCEPT
                          !.outcome = Some(VerifyPasswordCall(verify[1].password,
                                                              verify[1].hash_str))])
    /\ UNCHANGED <<storeVars, callVars, histVars, codecVars>>
    /\ UNCHANGED <<resp, walk, projects, creating>>

InitVerify ==
    /\ now = 0
    /\ docs = EmptyMap
    /\ keysets = EmptyMap
    /\ meta = EmptyMap
    /\ rate = EmptyMap
    /\ audit = <<>>
    /\ pc = [p \in Procs |-> "idle"]
    /\ api_key = [p \in Procs |-> <<>>]
    /\ parsed_key = [p \in Procs |-> None]
    /\ api_key_doc = [p \in Procs |-> None]
    /\ ret = [p \in Procs |-> None]
    /\ eff = [p \in Procs |-> NoEff]
    /\ adm = None
    /\ minted = {}
    /\ revoked = {}
    /\ outcomes = EmptyMap
    /\ rlCalls = EmptyMap
    /\ allowed = EmptyMap
    /\ nMints = 0
    /\ nValidates = 0
    /\ faulted = FALSE
    /\ cin = <<>>
    /\ cstage = "off"
    /\ cparsed = None
    /\ cout = <<>>
    /\ resp = None
    /\ walk = None
    /\ projects = EmptyMap
    /\ creating = {}
    /\ verify \in { Some([password |-> pw, hash_str |-> h, outcome |-> None]) :
                       pw \in VerifyPasswords, h \in VerifyHashes }

NextVerify == VerifyCall

SpecVerify == InitVerify /\ [][NextVerify]_vars

\* MintKeyRequest.project_id is any string: the endpoint checks nothing.
MintProjects == {PlainProject, DottedProject}

\* Minting alone, for projects whose id has or has not a dot.
NextMint ==
    \/ \E t \in Instants : Tick(t)
    \/ /\ nMints < MintMaxMints
       /\ \E pid \in MintProjects, key_id \in {KeyA, KeyB}, expires \in ExpiresChoices,
             fail \in BOOLEAN :
             MintKey(pid, key_id, "alice", "srv-a", expires, fail) /\ Unrecorded

SpecMint == Init /\ [][NextMint]_vars

\* One key, minted for a project id with or without a dot, then revoked or
\* not, and the validate requests of one caller that presents the credential
\* as mint returned it; no store command fails.
IssueMaxValidates == 2

IssueOwners == {"alice", "bob"}

NextIssue ==
    \/ \E t \in Instants : Tick(t)
    \/ /\ minted = {}
       /\ \E pid \in MintProjects, owner \in IssueOwners, expires \in ExpiresChoices :
             MintKey(pid, KeyA, owner, "srv-a", expires, FALSE) /\ Unrecorded
    \/ \E pid \in MintProjects : RevokeFetch(pid, KeyA, FALSE) /\ Unrecorded
    \/ RevokeSet(FALSE) /\ Unrecorded
    \/ /\ nValidates < IssueMaxValidates
       /\ \E s \in Issued : ValidateStart("v1", s)
    \/ ValidateLookup("v1", FALSE)
    \/ ValidateAuditDenied("v1", FALSE)
    \/ ValidateRateGate("v1", FALSE)
    \/ ValidateAuditRateLimited("v1", FALSE)
    \/ ValidateAuditOk("v1", FALSE)
    \/ ValidateUpdateUsage("v1", FALSE)
    \/ ValidateReturn("v1")

SpecIssue == Init /\ [][NextIssue]_vars

\* One key, minted for a project id with or without a colon, and the
\* validate requests of one caller who holds the credential and presents it
\* as returned, or with its project id cut at a colon and the rest moved to
\* the front of the key id; no store command fails.
AliasMaxValidates == 2

ColonProject == <<"a", ":", "b">>

AliasProjects == {PlainProject, ColonProject}

\* The credentials that name the same apikey: record as m's credential
\* under another (project_id, key_id).
Respelled(m) ==
    { FormatKey(ParsedAPIKey(SubSeq(m.project_id, 1, i - 1),
                             SubSeq(m.project_id, i + 1, Len(m.project_id))
                                 \o <<":">> \o m.key_id,
                             m.secret)) :
        i \in { j \in 1..Len(m.project_id) : m.project_id[j] = ":" } }

NextAlias ==
    \/ \E t \in Instants : Tick(t)
    \/ /\ minted = {}
       /\ \E pid \in AliasProjects, expires \in ExpiresChoices :
             MintKey(pid, KeyA, "alice", "srv-a", expires, FALSE) /\ Unrecorded
    \/ /\ nValidates < AliasMaxValidates
       /\ \E s \in Issued \cup UNION { Respelled(m) : m \in minted } :
             ValidateStart("v1", s)
    \/ ValidateLookup("v1", FALSE)
    \/ ValidateAuditDenied("v1", FALSE)
    \/ ValidateRateGate("v1", FALSE)
    \/ ValidateAuditRateLimited("v1", FALSE)
    \/ ValidateAuditOk("v1", FALSE)
    \/ ValidateUpdateUsage("v1", FALSE)
    \/ ValidateReturn("v1")

SpecAlias == Init /\ [][NextAlias]_vars

---------------------------------------------------------------------------
(* The credential codec (SpecCodec). *)

\* The positions of the dots of s
DotPositions(s) == {i \in 1..Len(s) : s[i] = DOT}

\* The position of the n-th dot of s (there are at least n)
NthDot(s, n) ==
    CHOOSE i \in DotPositions(s) : Cardinality({j \in DotPositions(s) : j <= i}) = n

\* s begins with the seven characters sk-proj followed by a dot
BeginsWithLiteral(s) ==
    /\ Len(s) >= 8
    /\ \A i \in 1..7 : s[i] = <<"s", "k", "-", "p", "r", "o", "j">>[i]
    /\ s[8] = DOT

\* C7: for every string s that ParsedAPIKey.parse accepts,
\* parse(s).format_key() is s itself.
C7_FormatOfParseIsIdentity ==
    cstage = "formatted" => cout = cin

\* C7's case: an accepted string whose secret holds a dot has been parsed
\* and formatted back.
C7_Witness ==
    /\ cstage = "formatted"
    /\ cparsed # None
    /\ DotPositions(cparsed[1].secret) # {}
    /\ cparsed[1].project_id # <<>>

\* C8: parse fails exactly when the string does not begin with sk-proj and
\* a dot, or has fewer than three dots (so that splitting at most three
\* times gives fewer than four segments); otherwise project_id is what lies
\* between the first and the second dot, key_id what lies between the second
\* and the third, and secret everything after the third dot, dots included.
C8_ParseCharacterised ==
    cstage \in {"parsed", "formatted"} =>
        IF ~BeginsWithLiteral(cin) \/ Cardinality(DotPositions(cin)) < 3
        THEN cparsed = InvalidFormat
        ELSE /\ cparsed # InvalidFormat
             /\ cparsed[1].project_id =
                    SubSeq(cin, NthDot(cin, 1) + 1, NthDot(cin, 2) - 1)
             /\ cparsed[1].key_id =
                    SubSeq(cin, NthDot(cin, 2) + 1, NthDot(cin, 3) - 1)
             /\ cparsed[1].secret = SubSeq(cin, NthDot(cin, 3) + 1, Len(cin))

\* C8's case: a string with more than three dots has been parsed, and the
\* dots after the third are in its secret.
C8_Witness ==
    /\ cstage = "parsed"
    /\ cparsed # InvalidFormat
    /\ Cardinality(DotPositions(cin)) > 3
    /\ Cardinality(DotPositions(cparsed[1].secret)) = Cardinality(DotPositions(cin)) - 3

---------------------------------------------------------------------------
(* The service without store errors (SpecRate). *)

\* The call of worker p has finished and not yet handed back its result.
Finished(p) == pc[p] = "done"

\* C3: a validate_api_key call whose string ParsedAPIKey.parse rejects
\* returns a rejection, and it appends no audit event and updates no usage.
C3_MalformedLeavesNoTrace ==
    \A p \in Procs :
        (Finished(p) /\ parsed_key[p] = InvalidFormat) =>
            /\ ret[p] = None
            /\ eff[p].events = <<>>
            /\ eff[p].usage = <<>>

\* C3's case: a call with an unparseable string has finished while the
\* audit stream holds the events of earlier calls.
C3_Witness ==
    \E p \in Procs :
        /\ Finished(p)
        /\ api_key[p] = Malformed
        /\ parsed_key[p] = InvalidFormat
        /\ audit # <<>>

\* C5: a validate that reads a document whose expires_at is earlier than
\* the time of the check returns a rejection, whatever secret is presented.
C5_ExpiredIsRejected ==
    \A p \in Procs :
        ( /\ Finished(p)
          /\ api_key_doc[p] # None
          /\ api_key_doc[p][1].expires_at # None
          /\ api_key_doc[p][1].expires_at[1] < eff[p].checked_at[1] ) =>
            ret[p] = None

\* C5's case: the credential mint issued, with its correct secret, has been
\* presented after the key's expiry and the call has finished.
C5_Witness ==
    \E p \in Procs :
        /\ Finished(p)
        /\ api_key[p] \in Issued
        /\ api_key_doc[p] # None
        /\ api_key_doc[p][1].expires_at # None
        /\ api_key_doc[p][1].expires_at[1] < eff[p].checked_at[1]
        /\ VerifyPassword(parsed_key[p][1].secret, api_key_doc[p][1].secret_hash)
        /\ ret[p] = None

\* C9: without store errors, the k-th check_rate_limit call for a key in
\* the minute bucket floor(now / 60) allows iff k <= limit; in particular
\* the first call of the next bucket is allowed whatever the count of the
\* bucket before.
C9_AllowIffWithinLimit ==
    \A p \in Procs :
        pc[p] \in {"audit_ok", "audit_rl"} =>
            (pc[p] = "audit_ok" <=> eff[p].rank[1] <= LimitPerMinute)

\* C9's case: the bucket of minute 0 took more calls than the limit, one of
\* them was denied, and the first call of minute 1 has been allowed.
C9_Witness ==
    \E p \in Procs :
        /\ pc[p] = "audit_ok"
        /\ eff[p].rank = Some(1)
        /\ now \div 60 = 1
        /\ <<PlainProject, KeyA, 0>> \in DOMAIN rlCalls
        /\ rlCalls[<<PlainProject, KeyA, 0>>] > LimitPerMinute
        /\ \E i \in DOMAIN audit : audit[i].result = "rate_limited"

\* The audit events of one result for the key (PlainProject, KeyA)
AuditCount(result) ==
    Cardinality({ i \in DOMAIN audit :
                    /\ audit[i].result = result
                    /\ audit[i].project_id = PlainProject
                    /\ audit[i].key_id = KeyA })

\* The validates of credential s that have returned
Returned(s) ==
    IF s \in DOMAIN outcomes THEN outcomes[s] ELSE [ok |-> 0, rejected |-> 0]

\* No call is running, and all calls so far fell into minute 0 while the
\* one minted key was valid.
QuietInFirstMinute ==
    /\ \A p \in Procs : pc[p] = "idle"
    /\ now \div 60 = 0
    /\ \A m \in minted :
          LET doc == docs[ApikeyKey(m.project_id, m.key_id)]
          IN  ~doc.disabled /\ (doc.expires_at = None \/ now <= doc.expires_at[1])

\* C10: when n validates of one valid credential, all inside one minute
\* bucket and in any interleaving, have finished without store errors,
\* min(n, limit) of them returned the document and the rest a rejection; the
\* audit stream holds min(n, limit) ok and max(0, n - limit) rate_limited
\* events for the key, and its usage_count is min(n, limit).
C10_BurstInOneBucket ==
    QuietInFirstMinute =>
        \A m \in minted :
            LET n == Returned(m.api_key).ok + Returned(m.api_key).rejected
            IN  /\ Returned(m.api_key).ok = Min(n, LimitPerMinute)
                /\ Returned(m.api_key).rejected = n - Min(n, LimitPerMinute)
                /\ AuditCount("ok") = Min(n, LimitPerMinute)
                /\ AuditCount("rate_limited") = Max(0, n - LimitPerMinute)
                /\ meta[ApimetaKey(m.project_id, m.key_id)].usage_count
                       = Min(n, LimitPerMinute)

\* C10's case: more validates than the limit, at two instants of the same
\* minute, have all finished.
C10_Witness ==
    /\ QuietInFirstMinute
    /\ now = 30
    /\ \E m \in minted :
          /\ Returned(m.api_key).ok = LimitPerMinute
          /\ Returned(m.api_key).rejected >= 2
          /\ AuditCount("rate_limited") >= 2

---------------------------------------------------------------------------
(* Revocation (SpecRevoke). *)

\* C4: once revoke_key of (project_id, key_id) has answered {revoked: true},
\* every validate of that key's credential that starts afterwards returns a
\* rejection, however validates, revokes and mints interleave.
C4_RevokedStaysRejected ==
    \A p \in Procs :
        (Finished(p) /\ eff[p].after_revoke) => ret[p] = None

\* C4's case: a validate that started after the revoke has read the
\* disabled document and finished, while the other worker is in a call.
C4_Witness ==
    \E p \in Procs :
        /\ Finished(p)
        /\ eff[p].after_revoke
        /\ api_key_doc[p] # None
        /\ api_key_doc[p][1].disabled
        /\ VerifyPassword(parsed_key[p][1].secret, api_key_doc[p][1].secret_hash)
        /\ \E q \in Procs \ {p} : pc[q] # "idle"

---------------------------------------------------------------------------
(* Validation with store errors (SpecAudit). *)

\* The call of worker p has appended exactly one audit event, of one of the
\* given results, for the key it was presented.
OneEvent(p, results) ==
    /\ Len(eff[p].events) = 1
    /\ eff[p].events[1].result \in results
    /\ eff[p].events[1].project_id = parsed_key[p][1].project_id
    /\ eff[p].events[1].key_id = parsed_key[p][1].key_id

\* The call of worker p has incremented the presented key's usage_count
\* once, by one.
OneUsage(p) ==
    eff[p].usage =
        << [ key   |-> ApimetaKey(parsed_key[p][1].project_id, parsed_key[p][1].key_id),
             delta |-> 1 ] >>

---------------------------------------------------------------------------
(* Minting (SpecMint). *)

\* C6: for every successful mint_key request, parsing the returned wire
\* form yields the project_id of the request and the key_id and secret that
\* mint generated and stored.
C6_MintedRoundTrips ==
    \A m \in minted :
        Parse(m.api_key) = Some(ParsedAPIKey(m.project_id, m.key_id, m.secret))

\* C6's failing case: a mint for a project id with a dot has succeeded, and
\* its credential parses to another project and key id.
C6_Witness ==
    \E m \in minted :
        /\ m.project_id = DottedProject
        /\ ApikeyKey(DottedProject, m.key_id) \in DOMAIN docs
        /\ Parse(m.api_key) # InvalidFormat
        /\ Parse(m.api_key)[1].project_id = <<"p">>
        /\ Parse(m.api_key)[1].key_id = <<"q">>

---------------------------------------------------------------------------
(* The validate endpoint's answers (SpecAudit). *)

\* C11, as stated: a validate whose document fetch met a store error is
\* answered internal_error with HTTP 500, never invalid_key.
C11_FetchErrorIsInternalError ==
    \A p \in Procs :
        (Finished(p) /\ "get" \in eff[p].errs) =>
            /\ ValidateKeyAnswer(ret[p]).status = 500
            /\ ValidateKeyAnswer(ret[p]).body.error.code = "internal_error"

\* C11's failing case: the issued credential of a stored, valid key is
\* presented, the document fetch meets a store error, and the endpoint
\* answers invalid_key with HTTP 401.
C11_Witness ==
    \E p \in Procs :
        /\ Finished(p)
        /\ api_key[p] \in Issued
        /\ "get" \in eff[p].errs
        /\ GetApiKey(parsed_key[p][1].project_id, parsed_key[p][1].key_id, FALSE) # None
        /\ IsValid(GetApiKey(parsed_key[p][1].project_id, parsed_key[p][1].key_id, FALSE)[1], now)
        /\ ValidateKeyAnswer(ret[p]) =
               ErrorResponse("invalid_key", "Invalid or expired API key", 401)

---------------------------------------------------------------------------
(* verify_password (SpecVerify). *)

\* C12, as stated: verify_password returns False, without raising, when the
\* secret does not match a well-formed hash and when the hash string is
\* malformed.
C12_VerifyNeverRaises ==
    (verify # None /\ verify[1].outcome # None) =>
        /\ verify[1].outcome[1].raised = <<>>
        /\ verify[1].hash_str # HashPassword(verify[1].password) =>
               verify[1].outcome[1] = Return(FALSE)

\* C12's failing case: verify_password has been called with a string that
\* is not an Argon2 encoding, and the hasher's exception has propagated.
C12_Witness ==
    /\ verify # None
    /\ verify[1].hash_str \in MalformedHashes
    /\ verify[1].outcome # None
    /\ verify[1].outcome[1] = Raise("InvalidHashError")

\* C13: when the store fails on the rate counter of a call whose other
\* checks have passed, the call is allowed: validate_api_key returns the
\* document and the endpoint answers 200 with the key's identity.
C13_RateStoreErrorAllows ==
    \A p \in Procs :
        (Finished(p) /\ "rate" \in eff[p].errs) =>
            /\ ret[p] # None
            /\ ret[p] = api_key_doc[p]
            /\ ValidateKeyAnswer(ret[p]) = ValidateKeyResponse(api_key_doc[p][1])

\* C13's case: a call has finished after its rate counter update failed.
C13_Witness ==
    \E p \in Procs :
        /\ Finished(p)
        /\ api_key[p] \in Issued
        /\ "rate" \in eff[p].errs
        /\ ValidateKeyAnswer(ret[p]).status = 200

\* C14: the value validate_api_key returns does not depend on whether an
\* audit append or the usage update meets a store error: after the denied
\* or rate_limited append the call returns a rejection, after the ok append
\* it goes on to the usage update, and after the usage update it returns
\* the document it read, whether the step succeeded or failed.
C14_ResultIgnoresAuditAndUsage ==
    [][ \A p \in Procs :
          /\ (pc[p] \in {"audit_denied", "audit_rl"} /\ pc'[p] # pc[p]) =>
                 (pc'[p] = "done" /\ ret'[p] = None)
          /\ (pc[p] = "audit_ok" /\ pc'[p] # pc[p]) =>
                 (pc'[p] = "usage" /\ ret'[p] = ret[p])
          /\ (pc[p] = "usage" /\ pc'[p] # pc[p]) =>
                 (pc'[p] = "done" /\ ret'[p] # None /\ ret'[p] = api_key_doc[p]) ]_vars

\* C14's case: a call has returned the document although both its ok
\* append and its usage update met a store error.
C14_Witness ==
    \E p \in Procs :
        /\ Finished(p)
        /\ ret[p] # None
        /\ {"audit", "usage"} \subseteq eff[p].errs
        /\ eff[p].events = <<>>
        /\ eff[p].usage = <<>>

---------------------------------------------------------------------------
(* The rejections of validate (SpecReject). *)

\* Why the finished call of worker p was rejected, read off what it was
\* given and what it read; "none" if nothing stood against it.
RejectionReason(p) ==
    IF parsed_key[p] = InvalidFormat THEN "malformed"
    ELSE IF api_key_doc[p] = None THEN "absent"
    ELSE IF api_key_doc[p][1].disabled THEN "disabled"
    ELSE IF /\ api_key_doc[p][1].expires_at # None
            /\ api_key_doc[p][1].expires_at[1] < eff[p].checked_at[1] THEN "expired"
    ELSE IF api_key_doc[p][1].secret_hash # HashPassword(parsed_key[p][1].secret)
         THEN "wrong_secret"
    ELSE IF eff[p].rank # None /\ eff[p].rank[1] > LimitPerMinute THEN "rate_limited"
    ELSE "none"

\* C20: every validate request that is rejected, for whichever of the six
\* reasons, receives the one response 401 invalid_key with the same message,
\* so any two of them receive identical responses; only the audit stream
\* tells the reasons apart: one rate_limited event for a rate limited call,
\* one denied event for an absent, disabled, expired or wrongly signed key,
\* and no event for an unparseable string.
C20_RejectionsCollapse ==
    \A p \in Procs :
        (Finished(p) /\ RejectionReason(p) # "none") =>
            /\ ret[p] = None
            /\ ValidateKeyAnswer(ret[p]) =
                   ErrorResponse("invalid_key", "Invalid or expired API key", 401)
            /\ \A q \in Procs :
                   (Finished(q) /\ RejectionReason(q) # "none") =>
                       ValidateKeyAnswer(ret[p]) = ValidateKeyAnswer(ret[q])
            /\ CASE RejectionReason(p) = "malformed" -> eff[p].events = <<>>
                 [] RejectionReason(p) = "rate_limited" -> OneEvent(p, {"rate_limited"})
                 [] OTHER -> OneEvent(p, {"denied"})

\* C20's case: two calls have finished, one rate limited and one rejected
\* for a wrong secret, with the same answer and different audit events.
C20_Witness ==
    \E p, q \in Procs :
        /\ Finished(p) /\ Finished(q)
        /\ RejectionReason(p) = "rate_limited"
        /\ RejectionReason(q) = "wrong_secret"
        /\ ValidateKeyAnswer(ret[p]) = ValidateKeyAnswer(ret[q])
        /\ ValidateKeyAnswer(ret[p]).status = 401
        /\ eff[p].events[1].result = "rate_limited"
        /\ eff[q].events[1].result = "denied"

---------------------------------------------------------------------------
(* The admin endpoints (SpecAdmin). *)

\* The revoke_key exchange the step completes, if it completes one for the
\* key kid.
RevokeAnswered(kid) ==
    /\ resp' # None
    /\ resp'[1].endpoint = "revoke-key"
    /\ resp'[1].request = [project_id |-> PlainProject, key_id |-> kid]

\* C15: when the store answers, revoking a key whose document is already
\* disabled is answered 200 {revoked: true} and changes nothing: the
\* document stays disabled and the store after the second revoke is the
\* store after the first.
C15_RevokeAgainIsNoChange ==
    [][ \A kid \in AdminKeyIds :
          ( /\ RevokeAnswered(kid)
            /\ resp'[1].errs = {}
            /\ ApikeyKey(PlainProject, kid) \in DOMAIN docs
            /\ docs[ApikeyKey(PlainProject, kid)].disabled ) =>
              /\ resp'[1].response = RevokeKeyResponse(TRUE)
              /\ docs'[ApikeyKey(PlainProject, kid)].disabled
              /\ UNCHANGED <<docs, keysets, meta, rate, audit, projects>> ]_vars

\* C15's case: a revoke has been answered {revoked: true} for a key whose
\* document was disabled before it.
C15_Witness ==
    /\ resp # None
    /\ resp[1].endpoint = "revoke-key"
    /\ resp[1].errs = {}
    /\ resp[1].before # None
    /\ resp[1].before[1].disabled
    /\ resp[1].response = RevokeKeyResponse(TRUE)
    /\ docs[ApikeyKey(resp[1].request.project_id, resp[1].request.key_id)].disabled

\* C16: a revoke for a key id that has no document is answered 404
\* key_not_found, revoke_api_key would return False for it, and the store is
\* left as it was: no document, set member or usage sidecar appears.
C16_RevokeAbsentFails ==
    [][ \A kid \in AdminKeyIds :
          ( /\ RevokeAnswered(kid)
            /\ ApikeyKey(PlainProject, kid) \notin DOMAIN docs ) =>
              /\ resp'[1].response = ErrorResponse("key_not_found", "API key not found", 404)
              /\ ~RevokeApiKeyResult(PlainProject, kid, FALSE)
              /\ UNCHANGED <<docs, keysets, meta, rate, audit, projects>>
              /\ ApikeyKey(PlainProject, kid) \notin DOMAIN docs'
              /\ kid \notin Members(PlainProject)'
              /\ ApimetaKey(PlainProject, kid) \notin DOMAIN meta' ]_vars

\* C16's case: a revoke for a key id without a document has been answered
\* key_not_found while the project holds another key.
C16_Witness ==
    /\ resp # None
    /\ resp[1].endpoint = "revoke-key"
    /\ resp[1].errs = {}
    /\ resp[1].before = None
    /\ resp[1].response.status = 404
    /\ ApikeyKey(PlainProject, resp[1].request.key_id) \notin DOMAIN docs
    /\ Members(PlainProject) # {}

---------------------------------------------------------------------------
(* The pages of list_keys (SpecList). *)

\* The list_keys exchange the last step completed, if it completed one.
Listed == resp # None /\ resp[1].endpoint = "list-keys"

\* C17, as stated: every list_keys request with offset + limit at or above
\* the number of keys in the project's key-id set is answered with
\* next = null.
C17_AsStated ==
    Listed =>
        (resp[1].request.offset + resp[1].request.limit
             >= Cardinality(Members(resp[1].request.project_id)) =>
         resp[1].response.body.next = None)

\* C17, amended: every list_keys request with offset + limit above the
\* number of keys in the project's key-id set is answered with next = null
\* (at equality the page is full and next = str(offset + limit)).
C17_PastTheEndHasNoNext ==
    Listed =>
        (resp[1].request.offset + resp[1].request.limit
             > Cardinality(Members(resp[1].request.project_id)) =>
         resp[1].response.body.next = None)

\* C17's case: a page that reaches past the end of a set that has keys has
\* been answered with items and without a cursor.
C17_Witness ==
    /\ Listed
    /\ Cardinality(Members(resp[1].request.project_id)) = 3
    /\ resp[1].request.offset = 2
    /\ resp[1].request.limit = 2
    /\ Len(resp[1].response.body.items) = 1
    /\ resp[1].response.body.next = None

---------------------------------------------------------------------------
(* Paging through the keys of a project (SpecWalk). *)

\* The key ids of the items list_all_keys has collected.
WalkedIds == [i \in 1..Len(walk[1].all_keys) |-> walk[1].all_keys[i].key_id]

\* C18, as stated: a page carries next = str(offset + limit) exactly when
\* it has limit items and next = null otherwise; and a walk from offset 0
\* that follows next, over a key-id set that did not change between its
\* pages, ends after at most |keys| / limit + 1 pages having returned every
\* key of the project exactly once.
C18_WalkReturnsEveryKeyOnce ==
    walk # None =>
        /\ walk[1].last # None =>
               LET page == walk[1].last[1]
               IN  page.result.body.next =
                       IF Len(page.result.body.items) = walk[1].limit
                       THEN Some(ToString(page.offset + walk[1].limit))
                       ELSE None
        /\ ~walk[1].mutated /\ walk[1].key_ids # None =>
               walk[1].pages <= (Len(walk[1].key_ids[1]) \div walk[1].limit) + 1
        /\ walk[1].returned /\ ~walk[1].mutated =>
               /\ \A i, j \in DOMAIN WalkedIds : WalkedIds[i] = WalkedIds[j] => i = j
               /\ Range(WalkedIds) = Range(walk[1].key_ids[1])

\* C18's failing case: over an unchanged set of three keys, a walk whose
\* requests were all answered 200 has ended because a document of a page
\* could not be read, and keys of the project are missing from its result.
C18_Witness ==
    /\ walk # None
    /\ walk[1].returned
    /\ ~walk[1].mutated
    /\ walk[1].errs = {"get"}
    /\ walk[1].last[1].result.status = 200
    /\ Len(walk[1].key_ids[1]) = 3
    /\ Range(WalkedIds) # Range(walk[1].key_ids[1])

---------------------------------------------------------------------------
(* What the responses carry (SpecAdmin). *)

\* Hashes a stored document could carry instead of its own.
OtherHashes ==
    {HashPassword(WrongSecret), HashPassword(GenerateSecret(1)),
     HashPassword(GenerateSecret(2))}

\* The stores that differ from store in secret_hash values only.
Rehashed(store) ==
    { [k \in DOMAIN store |-> [store[k] EXCEPT !.secret_hash = h[k]]] :
          h \in [DOMAIN store -> OtherHashes] }

\* No field of a response body, of its error object, or of an item of a
\* list is named secret_hash.
NoSecretHashField(response) ==
    /\ "secret_hash" \notin DOMAIN response.body
    /\ "error" \in DOMAIN response.body =>
           "secret_hash" \notin DOMAIN response.body.error
    /\ "items" \in DOMAIN response.body =>
           \A i \in DOMAIN response.body.items :
               "secret_hash" \notin DOMAIN response.body.items[i]

\* C19: no answer of mint, revoke, list, create_project or get_project, and
\* no answer validate can give for a stored document or for a rejection,
\* has a secret_hash field; and the answer to a list_keys request is the
\* same over every store that differs from the actual one in secret_hash
\* values only.
C19_NoSecretHashInResponses ==
    /\ resp # None => NoSecretHashField(resp[1].response)
    /\ NoSecretHashField(ValidateKeyAnswer(None))
    /\ \A k \in DOMAIN docs : NoSecretHashField(ValidateKeyAnswer(Some(docs[k])))
    /\ Listed =>
           \A store \in Rehashed(docs) :
               ListKeysAnswer(store, resp[1].request.project_id,
                              resp[1].request.offset, resp[1].request.limit,
                              resp[1].before[1].key_ids, resp[1].before[1].unreadable,
                              resp[1].before[1].fail)
                   = resp[1].response

\* C19's case: a list_keys request has been answered with the views of two
\* keys whose documents carry different secret hashes.
C19_Witness ==
    /\ Listed
    /\ Len(resp[1].response.body.items) = 2
    /\ docs[ApikeyKey(PlainProject, KeyA)].secret_hash
           # docs[ApikeyKey(PlainProject, KeyB)].secret_hash
    /\ \E store \in Rehashed(docs) : store # docs

---------------------------------------------------------------------------
(* The project endpoints (SpecProject). *)

\* The create_project exchange the last step completed, if it completed one.
Created == resp # None /\ resp[1].endpoint = "create-project"

\* C21, as stated: a create_project request that begins after a record of
\* the project has been written is answered 409 project_exists, and the
\* stored record is still the one it found.
C21_SecondCreateIsRefused ==
    (Created /\ resp[1].before.checked # None) =>
        /\ resp[1].response =
               ErrorResponse("project_exists", "Project already exists", 409)
        /\ projects[ProjectKey(resp[1].request.project_id)] = resp[1].before.checked[1]

\* C21's failing case: a create_project request that began when the record
\* existed, and whose existence check met a store error, has been answered
\* {created: true} and has replaced the record by another.
C21_Witness ==
    /\ Created
    /\ resp[1].before.checked # None
    /\ resp[1].errs = {"get"}
    /\ resp[1].response = CreateProjectAnswer([project_id |-> PlainProject], FALSE)
    /\ projects[ProjectKey(PlainProject)] # resp[1].before.checked[1]
    /\ projects[ProjectKey(PlainProject)].label # resp[1].before.checked[1].label

\* C22, as stated: a project record, once written, is never changed, and a
\* create_project request reports created only if no record was there when
\* it wrote, so that at most one request per project reports it.
C22_ProjectNeverMutated ==
    [][ /\ \A key \in DOMAIN projects :
              key \in DOMAIN projects' /\ projects'[key] = projects[key]
        /\ ( /\ resp' # None
             /\ resp'[1].endpoint = "create-project"
             /\ resp'[1].response.status = 200 ) =>
               ProjectKey(resp'[1].request.project_id) \notin DOMAIN projects ]_vars

\* C22's failing case: of two overlapping create_project requests whose
\* existence checks both succeeded and found nothing, the second has been
\* answered {created: true} too and has replaced the first one's record.
C22_Witness ==
    /\ Created
    /\ resp[1].errs = {}
    /\ resp[1].before.checked = None
    /\ resp[1].before.stored # None
    /\ resp[1].response.status = 200
    /\ projects[ProjectKey(PlainProject)] # resp[1].before.stored[1]

---------------------------------------------------------------------------
(* The records of the store (SpecStore). *)

TripleWritten(kid) ==
    /\ kid \in Members(PlainProject) <=> ApikeyKey(PlainProject, kid) \in DOMAIN docs
    /\ ApimetaKey(PlainProject, kid) \in DOMAIN meta
           <=> ApikeyKey(PlainProject, kid) \in DOMAIN docs

\* The step is a mint_key request that store_api_key failed: a request is
\* counted and no credential is returned.
MintFailed == nMints' = nMints + 1 /\ minted' = minted

\* C24, as stated: after every step the document, set member and usage
\* sidecar of a key are all there or all missing, and a mint that reports
\* failure leaves all three as they were.
C24_AsStated ==
    [][ /\ \A kid \in AdminKeyIds : TripleWritten(kid)'
        /\ MintFailed => UNCHANGED <<docs, keysets, meta>> ]_vars

\* C24's case: a mint has reported failure and yet the three records of its
\* key are in the store: the key has a document, is a member of the set and
\* has a sidecar, and no credential was returned for it.
C24_Witness ==
    \E kid \in AdminKeyIds :
        /\ faulted
        /\ ApikeyKey(PlainProject, kid) \in DOMAIN docs
        /\ kid \in Members(PlainProject)
        /\ ApimetaKey(PlainProject, kid) \in DOMAIN meta
        /\ \A m \in minted : m.key_id # kid

\* C25: a document that exists is still there after every step, with the
\* same secret_hash, owner, metadata, created_at and expires_at, and its
\* disabled flag does not go from true to false.
C25_DocumentIsKept ==
    [][ \A k \in DOMAIN docs :
            /\ k \in DOMAIN docs'
            /\ docs'[k].secret_hash = docs[k].secret_hash
            /\ docs'[k].owner = docs[k].owner
            /\ docs'[k].metadata = docs[k].metadata
            /\ docs'[k].created_at = docs[k].created_at
            /\ docs'[k].expires_at = docs[k].expires_at
            /\ docs[k].disabled => docs'[k].disabled ]_vars

\* C25's case: a credential was returned by a mint and then revoked, no
\* store command has failed, and the document under its key is enabled and
\* carries the hash of another secret.
C25_Witness ==
    \E m \in minted :
        /\ ~faulted
        /\ m.api_key \in revoked
        /\ ApikeyKey(m.project_id, m.key_id) \in DOMAIN docs
        /\ ~docs[ApikeyKey(m.project_id, m.key_id)].disabled
        /\ docs[ApikeyKey(m.project_id, m.key_id)].secret_hash # HashPassword(m.secret)

\* C26: the usage_count of a key never decreases, and every step that
\* changes it adds one and is the usage update of a validate of that key
\* that returns the document (Ok).
C26_UsageOnlyGrowsByValidate ==
    [][ \A k \in DOMAIN meta :
            /\ k \in DOMAIN meta'
            /\ meta'[k].usage_count >= meta[k].usage_count
            /\ meta'[k].usage_count # meta[k].usage_count =>
                 /\ meta'[k].usage_count = meta[k].usage_count + 1
                 /\ \E p \in DOMAIN pc :
                      /\ pc[p] = "usage"
                      /\ pc'[p] = "done"
                      /\ ret'[p] # None
                      /\ k = ApimetaKey(parsed_key[p][1].project_id,
                                        parsed_key[p][1].key_id) ]_vars

\* C26's case: a credential has been validated Ok, no store command has
\* failed, and the usage_count of its key is 0.
C26_Witness ==
    \E m \in minted :
        /\ ~faulted
        /\ m.api_key \in DOMAIN outcomes
        /\ outcomes[m.api_key].ok >= 1
        /\ meta[ApimetaKey(m.project_id, m.key_id)].usage_count = 0

\* C30: two credentials returned by mints for one project carry distinct
\* key ids, and every mint that returns a credential adds exactly its key id,
\* not a member before, to the project's set and writes a document and a
\* sidecar under keys that held nothing.
C30_MintedKeyIdsAreDistinct ==
    /\ [](\A m1, m2 \in minted :
              m1 # m2 /\ m1.project_id = m2.project_id => m1.key_id # m2.key_id)
    /\ [][ minted' # minted =>
             \E m \in minted' \ minted :
                 /\ minted' = minted \cup {m}
                 /\ m.key_id \notin Members(m.project_id)
                 /\ Members(m.project_id)' = Members(m.project_id) \cup {m.key_id}
                 /\ ApikeyKey(m.project_id, m.key_id) \notin DOMAIN docs
                 /\ ApimetaKey(m.project_id, m.key_id) \notin DOMAIN meta ]_vars

\* C30's case: two mints that met no store error have returned credentials
\* with the same key id for the same project.
C30_Witness ==
    \E m1, m2 \in minted :
        /\ ~faulted
        /\ m1 # m2
        /\ m1.project_id = m2.project_id
        /\ m1.key_id = m2.key_id
        /\ Members(m1.project_id) = {m1.key_id}

---------------------------------------------------------------------------
(* What a validate request writes (SpecFrame). *)

---------------------------------------------------------------------------
(* Validating what mint returned (SpecIssue). *)

\* The credential m was returned by a mint and its key is live: it has not
\* been revoked, its document is enabled and not expired, and no minute has
\* seen more than LimitPerMinute validations of it.
LiveCredential(m) ==
    /\ m.api_key \notin revoked
    /\ ApikeyKey(m.project_id, m.key_id) \in DOMAIN docs
    /\ ~docs[ApikeyKey(m.project_id, m.key_id)].disabled
    /\ ~IsExpired(docs[ApikeyKey(m.project_id, m.key_id)], now)
    /\ \A bucket \in DOMAIN rlCalls :
           (bucket[1] = m.project_id /\ bucket[2] = m.key_id) =>
               rlCalls[bucket] <= LimitPerMinute

\* C28: a validate request that presents a credential exactly as mint
\* returned it, for a live key and without store errors, returns Ok with the
\* project_id, owner and metadata of the mint request and the key_id of the
\* credential.
C28_MintedCredentialValidates ==
    \A p \in Procs : \A m \in minted :
        ( /\ Finished(p)
          /\ api_key[p] = m.api_key
          /\ eff[p].errs = {}
          /\ ~faulted
          /\ LiveCredential(m) ) =>
            /\ ret[p] # None
            /\ ValidateKeyAnswer(ret[p]) =
                   [ status |-> 200,
                     body   |-> [ project_id |-> m.project_id, key_id |-> m.key_id,
                                  owner |-> m.owner, metadata |-> m.metadata ] ]

\* C28's case: the credential minted for the project id with a dot has been
\* presented as returned, its key is live and no store command has failed,
\* and the request is about to be answered invalid_key.
C28_Witness ==
    \E p \in Procs : \E m \in minted :
        /\ Finished(p)
        /\ api_key[p] = m.api_key
        /\ m.project_id = DottedProject
        /\ eff[p].errs = {}
        /\ ~faulted
        /\ LiveCredential(m)
        /\ ret[p] = None
        /\ ValidateKeyAnswer(ret[p]) =
               ErrorResponse("invalid_key", "Invalid or expired API key", 401)

---------------------------------------------------------------------------
(* The error codes of the endpoints (SpecAdmin). *)

\* The six kinds of error of the taxonomy.
ErrorKinds ==
    { "invalid_key", "key_not_found", "project_exists", "project_not_found",
      "storage_error", "internal_error" }

\* The response is an error envelope.
IsErrorEnvelope(response) == "error" \in DOMAIN response.body

\* Every error envelope an endpoint has just answered, and the one validate
\* answers a rejection with, carries a code of the set kinds.
ErrorCodesWithin(kinds) ==
    /\ (resp # None /\ IsErrorEnvelope(resp[1].response)) =>
           resp[1].response.body.error.code \in kinds
    /\ ValidateKeyAnswer(None).body.error.code \in kinds

\* C29, as stated: every error code of an error envelope of validate, mint,
\* revoke, list, create_project or get_project is one of the six kinds.
C29_AsStated == ErrorCodesWithin(ErrorKinds)

\* C29, amended: every error code of an error envelope of these endpoints
\* is one of the six kinds or revocation_error.
C29_ErrorCodesAreClosed == ErrorCodesWithin(ErrorKinds \cup {"revocation_error"})

\* C29's case: revoke_key has found the document, the write of the flag has
\* failed, and the answer is a 500 envelope with code revocation_error.
C29_Witness ==
    /\ resp # None
    /\ resp[1].endpoint = "revoke-key"
    /\ IsErrorEnvelope(resp[1].response)
    /\ resp[1].response.status = 500
    /\ resp[1].response.body.error.code = "revocation_error"

---------------------------------------------------------------------------
(* Where the secret is kept (SpecIssue). *)

\* The string secret occurs in the string s.
Occurs(secret, s) ==
    \E i \in 1..(Len(s) - Len(secret) + 1) : SubSeq(s, i, i + Len(secret) - 1) = secret

\* What can be read back from a stored secret_hash: the secret itself when
\* the encoding is the identity, nothing from an Argon2id encoding.
Reveals(hash) == IF hash.alg = "plaintext" THEN hash.of ELSE <<>>

\* The strings the store holds that a request or the service put there: the
\* names of the keys of every kind of record, the ids written in documents,
\* key-id sets and audit events, and what the stored hashes reveal.  (owner
\* and metadata are given by the caller before the secret is generated;
\* counters and timestamps are numbers.)
StoredStrings ==
    DOMAIN docs \cup DOMAIN meta \cup DOMAIN keysets \cup DOMAIN rate
        \cup { docs[k].project_id : k \in DOMAIN docs }
        \cup { docs[k].key_id : k \in DOMAIN docs }
        \cup { Reveals(docs[k].secret_hash) : k \in DOMAIN docs }
        \cup UNION { keysets[k] : k \in DOMAIN keysets }
        \cup { audit[i].project_id : i \in DOMAIN audit }
        \cup { audit[i].key_id : i \in DOMAIN audit }

\* C31: in every state, the plaintext secret of a minted key occurs in no
\* stored record: not in a document, a usage sidecar, a key-id set, a rate
\* counter or an audit event, nor in the name of any of their keys.
C31_SecretIsNotStored ==
    \A m \in minted : \A s \in StoredStrings : ~Occurs(m.secret, s)

\* C31's case: a key has been minted and its credential validated Ok, so
\* the store holds its document, set member, sidecar, a rate counter and an
\* audit event.
C31_Witness ==
    \E m \in minted :
        /\ ApikeyKey(m.project_id, m.key_id) \in DOMAIN docs
        /\ docs[ApikeyKey(m.project_id, m.key_id)].secret_hash = HashPassword(m.secret)
        /\ m.key_id \in Members(m.project_id)
        /\ meta[ApimetaKey(m.project_id, m.key_id)].usage_count >= 1
        /\ DOMAIN rate # {}
        /\ \E i \in DOMAIN audit : audit[i].key_id = m.key_id /\ audit[i].result = "ok"

---------------------------------------------------------------------------
(* The order of the checks of validate (SpecReject). *)

\* The step creates a rate-window counter or raises the count of one.
RateIncremented ==
    \E k \in DOMAIN rate' :
        \/ k \notin DOMAIN rate
        \/ rate'[k].count > rate[k].count

\* C32: a step that increments a rate-window counter is the rate-limit step
\* of a validate whose document was found, was enabled and not expired at
\* the liveness check, and stores the hash of the presented secret; it
\* increments the counter of that key only.  A validate that is rejected at
\* parse, lookup, liveness or secret verification makes no rate-limit call,
\* and none of its steps changes a counter.
C32_RateCountsVerifiedOnly ==
    [][ /\ RateIncremented =>
             \E p \in Procs :
                 /\ pc[p] = "rate"
                 /\ pc'[p] \in {"audit_ok", "audit_rl"}
                 /\ api_key_doc[p] # None
                 /\ IsValid(api_key_doc[p][1], eff[p].checked_at[1])
                 /\ api_key_doc[p][1].secret_hash = HashPassword(parsed_key[p][1].secret)
                 /\ \A k \in DOMAIN rate' :
                        (k \notin DOMAIN rate \/ rate'[k] # rate[k]) =>
                            k = RatelimitKey(parsed_key[p][1].project_id,
                                             parsed_key[p][1].key_id,
                                             now \div 60)
        /\ \A p \in Procs :
             (pc'[p] # pc[p] /\ pc[p] # "rate") => rate' = rate
        /\ \A p \in Procs :
             ( /\ pc'[p] = "done"
               /\ RejectionReason(p)' \in
                      {"malformed", "absent", "disabled", "expired", "wrong_secret"} ) =>
                 eff'[p].rank = None ]_vars

\* C32's case: a counter stands at 1 from a validate that returned Ok, and a
\* validate presenting a wrong secret for the same key has been rejected
\* without a rate-limit call.
C32_Witness ==
    \E p \in Procs :
        /\ Finished(p)
        /\ RejectionReason(p) = "wrong_secret"
        /\ eff[p].rank = None
        /\ OneEvent(p, {"denied"})
        /\ \E k \in DOMAIN rate : rate[k].count = 1

\* C33: a validate whose document is disabled or expired at the liveness
\* check does not call verify_password; it is rejected, and the one audit
\* event it appends is `denied`.
C33_NoVerifyForDeadKey ==
    \A p \in Procs :
        ( /\ Finished(p)
          /\ api_key_doc[p] # None
          /\ \/ api_key_doc[p][1].disabled
             \/ /\ api_key_doc[p][1].expires_at # None
                /\ api_key_doc[p][1].expires_at[1] < eff[p].checked_at[1] ) =>
            /\ ~eff[p].verified
            /\ ret[p] = None
            /\ OneEvent(p, {"denied"})

\* C33's case: the credential of a revoked key, with the right secret, has
\* been presented and rejected.
C33_Witness ==
    \E p \in Procs :
        /\ Finished(p)
        /\ api_key[p] \in Issued
        /\ api_key_doc[p] # None
        /\ api_key_doc[p][1].disabled
        /\ api_key_doc[p][1].secret_hash = HashPassword(parsed_key[p][1].secret)
        /\ ~eff[p].verified
        /\ OneEvent(p, {"denied"})

---------------------------------------------------------------------------
(* Usage counts and ok events (SpecStore). *)

\* The number of ok events the audit stream holds for a key.
OkEvents(pid, kid) ==
    Cardinality({ i \in DOMAIN audit :
                    /\ audit[i].project_id = pid
                    /\ audit[i].key_id = kid
                    /\ audit[i].result = "ok" })

\* C34: a validate that has updated the usage of its key appended its ok
\* event before and appended no denied or rate_limited event; and, when no
\* store command has failed, in every state the usage_count of a key is at
\* most the number of ok events recorded for it, and equal to it when no
\* validate is in flight.
C34_UsageFollowsOkEvents ==
    /\ \A p \in Procs : eff[p].usage # <<>> => OneEvent(p, {"ok"})
    /\ ~faulted =>
         \A kid \in AdminKeyIds :
             ApimetaKey(PlainProject, kid) \in DOMAIN meta =>
                 /\ meta[ApimetaKey(PlainProject, kid)].usage_count
                        <= OkEvents(PlainProject, kid)
                 /\ (\A p \in Procs : pc[p] = "idle") =>
                        meta[ApimetaKey(PlainProject, kid)].usage_count
                            = OkEvents(PlainProject, kid)

\* C34's case: no store command has failed and no validate is in flight; the
\* audit stream holds an ok event for a key whose usage_count is 0.
C34_Witness ==
    \E kid \in AdminKeyIds :
        /\ ~faulted
        /\ \A p \in Procs : pc[p] = "idle"
        /\ ApimetaKey(PlainProject, kid) \in DOMAIN meta
        /\ meta[ApimetaKey(PlainProject, kid)].usage_count = 0
        /\ OkEvents(PlainProject, kid) = 1

\* C35: the step of revoke_key that calls revoke_api_key for a document
\* that exists sets the disabled field of that document to true and changes
\* nothing else: not another field of it, not another document, no key-id
\* set, usage sidecar, rate counter or project record, and not the audit
\* stream.
C35_RevokeChangesOnlyDisabled ==
    [][ ( /\ adm # None
          /\ adm' = None
          /\ ApikeyKey(adm[1].project_id, adm[1].key_id) \in DOMAIN docs ) =>
            /\ docs' = [docs EXCEPT
                          ![ApikeyKey(adm[1].project_id, adm[1].key_id)].disabled = TRUE]
            /\ keysets' = keysets
            /\ meta' = meta
            /\ rate' = rate
            /\ projects' = projects
            /\ audit' = audit ]_vars

\* C35's case: one of two keys has been revoked; the other is enabled and
\* has been validated, so the store holds its sidecar, a rate counter and an
\* audit event beside the two documents and the key-id set.
C35_Witness ==
    /\ adm = None
    /\ revoked # {}
    /\ Members(PlainProject) = {KeyA, KeyB}
    /\ docs[ApikeyKey(PlainProject, KeyA)].disabled
    /\ ~docs[ApikeyKey(PlainProject, KeyB)].disabled
    /\ meta[ApimetaKey(PlainProject, KeyB)].usage_count = 1
    /\ DOMAIN rate # {}
    /\ audit # <<>>

---------------------------------------------------------------------------
(* The document a credential resolves to (SpecAlias). *)

\* C36: a validate that returns Ok returns a document, and answers with a
\* body, whose project_id and key_id are the ones parsed from the presented
\* credential; and the (project_id, key_id) a request has parsed resolves
\* to no document stored under another (project_id, key_id).
C36_ReturnedIdsAreThePresented ==
    \A p \in Procs :
        /\ (Finished(p) /\ ret[p] # None) =>
               /\ ret[p][1].project_id = parsed_key[p][1].project_id
               /\ ret[p][1].key_id = parsed_key[p][1].key_id
               /\ ValidateKeyAnswer(ret[p]).body.project_id = parsed_key[p][1].project_id
               /\ ValidateKeyAnswer(ret[p]).body.key_id = parsed_key[p][1].key_id
        /\ (parsed_key[p] # None
              /\ ApikeyKey(parsed_key[p][1].project_id, parsed_key[p][1].key_id)
                     \in DOMAIN docs) =>
               LET doc == docs[ApikeyKey(parsed_key[p][1].project_id,
                                         parsed_key[p][1].key_id)]
               IN  /\ doc.project_id = parsed_key[p][1].project_id
                   /\ doc.key_id = parsed_key[p][1].key_id

\* C36's case: the key was minted for project "a:b"; a credential naming
\* project "a" and key id "b:" followed by the minted key id has been
\* validated Ok, and the document returned is the one of project "a:b".
C36_Witness ==
    \E p \in Procs :
        /\ Finished(p)
        /\ ret[p] # None
        /\ parsed_key[p][1].project_id = <<"a">>
        /\ parsed_key[p][1].key_id = <<"b", ":">> \o KeyA
        /\ ret[p][1].project_id = ColonProject
        /\ ret[p][1].key_id = KeyA
        /\ ValidateKeyAnswer(ret[p]).status = 200

---------------------------------------------------------------------------
(* The length of a page (SpecList). *)

\* min(lim, max(0, n - off))
PageLength(n, off, lim) ==
    IF n - off <= 0 THEN 0
    ELSE IF n - off < lim THEN n - off ELSE lim

\* C37: a list_keys answer holds exactly one item for every key id of the
\* slice [offset : offset + limit] of the project's key-id set, in the order
\* of the slice, that is min(limit, max(0, |set| - offset)) items; a page
\* shorter than limit, and so a null next, is answered only when the slice
\* reaches the end of the set.
C37_PageIsTheSlice ==
    Listed =>
        LET request == resp[1].request
            items   == resp[1].response.body.items
            slice   == Slice(resp[1].before[1].key_ids, request.offset, request.limit)
            n       == Cardinality(Members(request.project_id))
        IN  /\ Len(items) = PageLength(n, request.offset, request.limit)
            /\ Len(items) = Len(slice)
            /\ \A i \in DOMAIN items : items[i].key_id = slice[i]
            /\ (Len(items) < request.limit \/ resp[1].response.body.next = None) =>
                   request.offset + request.limit >= n

\* C37's case: list_keys has answered 200 with a page shorter than limit and
\* a null next although key ids of the set lie beyond the page: the read of
\* one document of the slice failed.
C37_Witness ==
    /\ Listed
    /\ resp[1].response.status = 200
    /\ ~resp[1].before[1].fail
    /\ resp[1].before[1].unreadable # {}
    /\ Len(resp[1].response.body.items) = resp[1].request.limit - 1
    /\ resp[1].response.body.next = None
    /\ resp[1].request.offset + resp[1].request.limit
           < Cardinality(Members(resp[1].request.project_id))

---------------------------------------------------------------------------
(* key_not_found (SpecAdmin). *)

\* C38: revoke_key answers key_not_found only when the store holds no
\* document for the key; when the fetch of the document met a store error,
\* the answer is a 500 error and not key_not_found.
C38_KeyNotFoundMeansAbsent ==
    (resp # None /\ resp[1].endpoint = "revoke-key") =>
        /\ ( /\ IsErrorEnvelope(resp[1].response)
             /\ resp[1].response.body.error.code = "key_not_found" ) =>
               resp[1].before = None
        /\ "get" \in resp[1].errs =>
               /\ resp[1].response.status = 500
               /\ IsErrorEnvelope(resp[1].response)
               /\ resp[1].response.body.error.code # "key_not_found"

\* C38's case: the document of the key is in the store, its fetch by
\* revoke_key met a store error, and the answer is 404 key_not_found.
C38_Witness ==
    /\ resp # None
    /\ resp[1].endpoint = "revoke-key"
    /\ resp[1].errs = {"get"}
    /\ resp[1].before # None
    /\ ~resp[1].before[1].disabled
    /\ resp[1].response = ErrorResponse("key_not_found", "API key not found", 404)
    /\ ApikeyKey(PlainProject, resp[1].request.key_id) \in DOMAIN docs

---------------------------------------------------------------------------
(* How many validates a key is allowed (SpecRate). *)

\* The number of check_rate_limit calls recorded under the keys.
RECURSIVE SumAllowed(_)
SumAllowed(keys) ==
    IF keys = {} THEN 0
    ELSE LET k == CHOOSE x \in keys : TRUE
         IN  allowed[k] + SumAllowed(keys \ {k})

\* The validates of a key that check_rate_limit let through at an instant t
\* with from <= t < to; these are the validates that go on to return Ok.
AllowedBetween(pid, kid, from, to) ==
    SumAllowed({ k \in DOMAIN allowed :
                   k[1] = pid /\ k[2] = kid /\ from <= k[3] /\ k[3] < to })

\* C39: without store errors, the validates of one key that pass the rate
\* limit (and so return Ok), counted at the instant of their rate-limit
\* check, are at most LimitPerMinute in every minute bucket and at most
\* 2 * LimitPerMinute in every interval of 60 seconds.
C39_AllowedPerMinute ==
    ~faulted =>
        \A m \in minted :
            /\ \A k \in DOMAIN allowed :
                   AllowedBetween(m.project_id, m.key_id,
                                  60 * (k[3] \div 60), 60 * (k[3] \div 60) + 60)
                       <= LimitPerMinute
            /\ \A k \in DOMAIN allowed :
                   AllowedBetween(m.project_id, m.key_id, k[3], k[3] + 60)
                       <= 2 * LimitPerMinute

\* C39's case: the limit was reached in the first minute, a further validate
\* of that minute was rate limited, and the next minute let validates through
\* again, so 2 * LimitPerMinute were allowed within 60 seconds.
C39_Witness ==
    \E m \in minted :
        /\ ~faulted
        /\ AllowedBetween(m.project_id, m.key_id, 0, 60) = LimitPerMinute
        /\ AllowedBetween(m.project_id, m.key_id, 30, 90) = 2 * LimitPerMinute
        /\ rlCalls[<<m.project_id, m.key_id, 0>>] > LimitPerMinute
        /\ \A p \in Procs : pc[p] = "idle"
        /\ outcomes[m.api_key].ok = 2 * LimitPerMinute

---------------------------------------------------------------------------
(* Keys do not share counters (SpecStore). *)

\* The records of the store that belong to the key (pid, kid): its
\* document, its usage sidecar and its rate counters.
RecordsOf(pid, kid) ==
    [ doc   |-> GetApiKey(pid, kid, FALSE),
      usage |-> IF ApimetaKey(pid, kid) \in DOMAIN meta
                THEN Some(meta[ApimetaKey(pid, kid)]) ELSE None,
      rates |-> [ minute \in 0..2 |->
                    IF RatelimitKey(pid, kid, minute) \in DOMAIN rate
                    THEN Some(rate[RatelimitKey(pid, kid, minute)]) ELSE None ] ]

\* C40: a step of a validate of the credential of key A changes no record
\* of another key B of the project; and its rate-limit check lets it through
\* exactly when the check_rate_limit calls made for A in the minute,
\* this one included, are at most LimitPerMinute, whatever was asked of B.
C40_AccountingIsPerKey ==
    [][ \A p \in Procs :
          (pc'[p] # pc[p] /\ pc[p] # "idle" /\ parsed_key[p] # None) =>
              /\ \A pid \in {parsed_key[p][1].project_id} :
                   \A kid \in AdminKeyIds \ {parsed_key[p][1].key_id} :
                       RecordsOf(pid, kid)' = RecordsOf(pid, kid)
              /\ pc[p] = "rate" =>
                     ( pc'[p] = "audit_ok" <=>
                         rlCalls'[<<parsed_key[p][1].project_id,
                                    parsed_key[p][1].key_id, now \div 60>>]
                             <= LimitPerMinute ) ]_vars

\* C40's case: key B has used up its limit for the minute, and a validate
\* of key A in the same minute has passed the rate limit and updated A's
\* usage; B's counter and sidecar are as B's validate left them.
C40_Witness ==
    \E p \in Procs :
        /\ Finished(p)
        /\ ret[p] # None
        /\ parsed_key[p][1].key_id = KeyA
        /\ eff[p].rank = Some(1)
        /\ RecordsOf(PlainProject, KeyA).rates[0] # None
        /\ RecordsOf(PlainProject, KeyA).rates[0][1].count = 1
        /\ RecordsOf(PlainProject, KeyB).rates[0] # None
        /\ RecordsOf(PlainProject, KeyB).rates[0][1].count = LimitPerMinute
        /\ RecordsOf(PlainProject, KeyB).usage # None
        /\ RecordsOf(PlainProject, KeyB).usage[1].usage_count = 1
        /\ RecordsOf(PlainProject, KeyA).usage[1].usage_count = 1

=============================================================================
